---- MODULE Spec2Model ----
(***************************************************************************)
(* PyRT: relocation of the files of a ROM image in two address spaces.     *)
(*                                                                         *)
(* Specifications of this module:                                          *)
(*   SpecRanges   the free-range list (class Ranges) under add_range and   *)
(*                exclude_range calls                                      *)
(*   SpecAlloc    allocation from a set of free ranges: the length-sorted  *)
(*                list of RangesAscendingLength, and the Allocator of the  *)
(*                unit tests (free, alloc_range, alloc with alignment and  *)
(*                tail boundary)                                           *)
(*   SpecRealloc  realloc_vrom / realloc_rom called on a list of files     *)
(*                with any ceiling and any movable set                     *)
(*   SpecNames    one reallocation call on files whose names, read from   *)
(*                the image, need not differ                               *)
(*   SpecPyrti    PyRTInterface: register_modules on any set of modules,  *)
(*                register_event, add_event_listener, raise_event          *)
(*   SpecCodec    the pipeline, and the table encoders run straight       *)
(*                after the decoders on an image whose files did not move  *)
(*   SpecHeaders  the search for the alternate headers of a scene, as      *)
(*                parse_scene_headers and pack_room_lists make it          *)
(*   Spec         the pipeline of main(): parse, reallocate VROM and ROM,  *)
(*                re-encode the tables, write                              *)
(*   SpecActor    the actor overlay table module: its listeners run in     *)
(*                the order of the events, on a code file whose string     *)
(*                pool holds the names of the actors                       *)
(*   SpecLoad     load_object_files on any listing of objects/             *)
(***************************************************************************)
EXTENDS Integers, Sequences, FiniteSets, TLC

VARIABLES
    rg,        \* Ranges.ranges of the Ranges object under test
    lastOp,    \* the last call made on it: [op, s, e]
    hist,      \* the calls made so far, oldest first
    impl,          \* which allocator is under test
    free_ranges,   \* RangesAscendingLength.ranges / Allocator.free_ranges
    tail,          \* Allocator.tail_range_start: [set, at], set = FALSE is None
    granted,       \* the ranges returned by the successful allocations so far
    pure,          \* no free / alloc_range call was made since construction
    ret,           \* the last call and what it returned
    files,           \* ROM.files: [name, len, vrom_start, vrom_end, rom_start, rom_end]
    default_ranges,  \* the list object that is the default argument of Ranges.__init__
    call,            \* the last reallocation call: [op, max, moveable, ok, err, n]
    pc,              \* position of main()
    dmadata,         \* records of the DMA table held by the dmadata file
    code,            \* rom.file_code.data: [obj, scene, mutable]
    code_data,       \* rom.code_data, the copy main() takes of the code file
    scene_rooms,     \* room list held by each scene file's data (by file)
    object_table,    \* decoded object table: file or 0 (None)
    scene_table,     \* decoded scene table: [scene_file, title_file]
    rooms_by_scene,  \* decoded room list of each scene table entry
    out,             \* the image written: the file each byte comes from, 0 = none
    scene_data,      \* the data of the scene file whose headers are walked, as 32-bit words
    header_offsets,  \* what the walk for alternate headers came to: [outcome, offsets]
    apc,                  \* position of the run of the actor overlay table module
    file_code_data,       \* rom.file_code.data, the bytes of the string pool
    actor_records,        \* the records of the actor overlay table in the code file
    actor_overlay_table,  \* ActorOverlayTable.actor_overlay_table: [set, entries]
    names_vram_start,     \* ActorOverlayTable.names_vram_start: name -> address
    code_allocator,       \* rom.file_code.allocator: [free_ranges, tail]
    allocator_log,        \* the calls made on it, oldest first
    objects_dir,          \* the directories of objects/ as iterdir gives them: [id, has_file, data]
    modules,               \* PyRTInterface.modules: [task, task_dependencies], as discovered
    unregistered_modules,  \* the dict of register_modules: its keys, in insertion order
    registered,            \* the tasks whose register callback was called, in call order
    event_listeners,       \* PyRTInterface.event_listeners: declared event -> callbacks
    added,                 \* the add_event_listener calls that returned: <<event, callback>>
    invoked,               \* the callbacks the last call of the interface invoked
    api,                   \* the last call made from outside a register callback
    rpc                    \* position of register_modules

rangesVars == <<rg, lastOp, hist>>

allocVars == <<impl, free_ranges, tail, granted, pure, ret>>

reallocVars == <<files, default_ranges, call>>

mainVars == <<pc, dmadata, code, code_data, scene_rooms, object_table, scene_table,
              rooms_by_scene, out>>

headerVars == <<scene_data, header_offsets>>

actorVars == <<apc, file_code_data, actor_records, actor_overlay_table,
               names_vram_start, code_allocator, allocator_log>>

loadVars == <<objects_dir>>

pyrtiVars == <<modules, unregistered_modules, registered, event_listeners, added,
               invoked, api, rpc>>

vars == <<rg, lastOp, hist, impl, free_ranges, tail, granted, pure, ret,
          files, default_ranges, call,
          pc, dmadata, code, code_data, scene_rooms, object_table, scene_table,
          rooms_by_scene, out, scene_data, header_offsets,
          apc, file_code_data, actor_records, actor_overlay_table,
          names_vram_start, code_allocator, allocator_log, objects_dir,
          modules, unregistered_modules, registered, event_listeners, added,
          invoked, api, rpc>>

----------------------------------------------------------------------------
(* Bounds *)

MaxAddr == 4     \* addresses of the Ranges under test are 0 .. MaxAddr
MaxOps == 3      \* number of calls made on the Ranges under test
MaxFreeAddr == 5 \* the initial free ranges of an allocator lie in 0 .. MaxFreeAddr
MaxSize == 3     \* largest size requested from an allocator
MaxAllocOps == 3 \* number of calls made on an allocator
MaxLen == 2      \* largest size of a file when the image is parsed
Ceiling == 8     \* the larger of the two address-space ceilings tried
MaxReallocs == 2 \* number of reallocation calls made in one process
MaxNames == 2    \* number of different file names in an image
MaxApiCalls == 3 \* calls of the event interface made from outside the modules
ObjectTableLen == 2    \* entries of the object table load_object_files works on
MaxAlternates == 2 \* entries of the alternate header list of a scene
PoolLen == 6       \* bytes of the string pool of the code file
ActorTableLength == 2  \* version_info.actor_overlay_table_length
MaxImage == 14   \* ceiling of both address spaces in main() (64 MiB in the source)
MaxFileLen == 2  \* largest object / room file of the image main() runs on
CodeIndex == 6   \* DMA table index of the code file in that image
SceneTableLength == 1  \* number of entries of its scene table

----------------------------------------------------------------------------
(* Python list primitives; i is a 0-based index as in the source *)

Pop(l, i) == SubSeq(l, 1, i) \o SubSeq(l, i + 2, Len(l))

Insert(l, i, x) == SubSeq(l, 1, i) \o <<x>> \o SubSeq(l, i + 1, Len(l))

RECURSIVE BisectLeftLoop(_, _, _, _)
BisectLeftLoop(a, x, lo, hi) ==
    IF lo < hi
    THEN LET mid == (lo + hi) \div 2
         IN  IF a[mid + 1] < x
             THEN BisectLeftLoop(a, x, mid + 1, hi)
             ELSE BisectLeftLoop(a, x, lo, mid)
    ELSE lo

bisect_left(a, x) == BisectLeftLoop(a, x, 0, Len(a))

RECURSIVE BisectRightLoop(_, _, _, _)
BisectRightLoop(a, x, lo, hi) ==
    IF lo < hi
    THEN LET mid == (lo + hi) \div 2
         IN  IF x < a[mid + 1]
             THEN BisectRightLoop(a, x, lo, mid)
             ELSE BisectRightLoop(a, x, mid + 1, hi)
    ELSE lo

bisect_right(a, x) == BisectRightLoop(a, x, 0, Len(a))

Ends(ranges) == [k \in 1..Len(ranges) |-> ranges[k][2]]

Lengths(ranges) == [k \in 1..Len(ranges) |-> ranges[k][2] - ranges[k][1]]

----------------------------------------------------------------------------
(* class Ranges *)

\* the while loop of Ranges.add_range, from index i on
RECURSIVE AddRangeLoop(_, _, _, _)
AddRangeLoop(ranges, i, add_start, add_end) ==
    IF i < Len(ranges)
    THEN LET start == ranges[i + 1][1]
             end == ranges[i + 1][2]
         IN  IF add_end < start
             THEN Insert(ranges, i, <<add_start, add_end>>)
             ELSE AddRangeLoop(Pop(ranges, i), i,
                               IF add_start > start THEN start ELSE add_start,
                               IF add_end < end THEN end ELSE add_end)
    ELSE Insert(ranges, i, <<add_start, add_end>>)

\* mutant of add_range: bisect_right, a range ending at add_start is skipped
add_range_noTouch(ranges, add_start, add_end) ==
    AddRangeLoop(ranges, bisect_right(Ends(ranges), add_start), add_start, add_end)

add_range(ranges, add_start, add_end) ==
    AddRangeLoop(ranges, bisect_left(Ends(ranges), add_start), add_start, add_end)

\* the while loop of Ranges.exclude_range, from index i on;
\* ok = FALSE is the AssertionError of the last branch
RECURSIVE ExcludeRangeLoop(_, _, _, _)
ExcludeRangeLoop(ranges, i, exclude_start, exclude_end) ==
    IF i < Len(ranges)
    THEN LET start == ranges[i + 1][1]
             end == ranges[i + 1][2]
             popped == Pop(ranges, i)
             withHead == IF start # exclude_start
                         THEN Insert(popped, i, <<start, exclude_start>>)
                         ELSE popped
             iHead == IF start # exclude_start THEN i + 1 ELSE i
         IN  IF exclude_end <= start
             THEN [ranges |-> ranges, ok |-> TRUE]
             ELSE IF exclude_start <= start /\ exclude_end >= end
             THEN ExcludeRangeLoop(popped, i, exclude_start, exclude_end)
             ELSE IF exclude_start >= start /\ exclude_end <= end
             THEN IF exclude_end # end
                  THEN ExcludeRangeLoop(Insert(withHead, iHead, <<exclude_end, end>>),
                                        iHead + 1, exclude_start, exclude_end)
                  ELSE ExcludeRangeLoop(withHead, iHead, exclude_start, exclude_end)
             ELSE IF exclude_start >= start /\ exclude_start < end
             THEN ExcludeRangeLoop(withHead, iHead, exclude_start, exclude_end)
             ELSE IF exclude_end > start /\ exclude_end <= end
             THEN IF exclude_end # end
                  THEN ExcludeRangeLoop(Insert(popped, i, <<exclude_end, end>>),
                                        i + 1, exclude_start, exclude_end)
                  ELSE ExcludeRangeLoop(popped, i, exclude_start, exclude_end)
             ELSE [ranges |-> ranges, ok |-> FALSE]
    ELSE [ranges |-> ranges, ok |-> TRUE]

\* mutant of exclude_range: the first range that meets the excluded range is
\* dropped whole instead of being split
exclude_range_wholeRange(ranges, exclude_start, exclude_end) ==
    LET i == bisect_right(Ends(ranges), exclude_start)
    IN  IF i < Len(ranges) /\ exclude_end > ranges[i + 1][1]
        THEN [ranges |-> Pop(ranges, i), ok |-> TRUE]
        ELSE [ranges |-> ranges, ok |-> TRUE]

exclude_range(ranges, exclude_start, exclude_end) ==
    ExcludeRangeLoop(ranges, bisect_right(Ends(ranges), exclude_start),
                     exclude_start, exclude_end)

----------------------------------------------------------------------------
(* Views of a range list *)

Interval(s, e) == {a \in s..(e - 1) : TRUE}

\* the addresses a list of ranges covers
Addrs(ranges) == UNION {Interval(ranges[k][1], ranges[k][2]) : k \in 1..Len(ranges)}

RangeSet(ranges) == {ranges[k] : k \in 1..Len(ranges)}

\* two ranges overlap or touch
TouchOrOverlap(r1, r2) == r1[1] <= r2[2] /\ r2[1] <= r1[2]

Overlap(r1, r2) == r1[1] < r2[2] /\ r2[1] < r1[2]

----------------------------------------------------------------------------
(* SpecRanges: calls on one Ranges object, starting from an empty list *)

IdleRanges ==
    /\ rg = <<>>
    /\ lastOp = [op |-> "init", s |-> 0, e |-> 0]
    /\ hist = <<>>

NoCall == [op |-> "init", size |-> 0, align |-> 1, ok |-> TRUE, start |-> 0, end |-> 0, n |-> 0]

IdleAlloc ==
    /\ impl = "none"
    /\ free_ranges = <<>>
    /\ tail = [set |-> FALSE, at |-> 0]
    /\ granted = <<>>
    /\ pure = TRUE
    /\ ret = NoCall

NoRealloc ==
    [op |-> "init", max |-> 0, moveable |-> {}, ok |-> TRUE, err |-> "", assigned |-> <<>>, n |-> 0]

IdleRom ==
    /\ files = <<>>
    /\ default_ranges = <<>>
    /\ call = NoRealloc

NoWalk == [outcome |-> "none", offsets |-> <<>>]

IdleHeaders ==
    /\ scene_data = <<>>
    /\ header_offsets = NoWalk

NoAllocator == [free_ranges |-> <<>>, tail |-> [set |-> FALSE, at |-> 0]]

IdleActor ==
    /\ apc = "idle"
    /\ file_code_data = <<>>
    /\ actor_records = <<>>
    /\ actor_overlay_table = [set |-> FALSE, entries |-> <<>>]
    /\ names_vram_start = <<>>
    /\ code_allocator = NoAllocator
    /\ allocator_log = <<>>

IdleLoad == objects_dir = <<>>

IdleMain ==
    /\ pc = "idle"
    /\ dmadata = <<>>
    /\ code = [obj |-> <<>>, scene |-> <<>>, mutable |-> FALSE]
    /\ code_data = [obj |-> <<>>, scene |-> <<>>, mutable |-> TRUE]
    /\ scene_rooms = <<>>
    /\ object_table = <<>>
    /\ scene_table = <<>>
    /\ rooms_by_scene = <<>>
    /\ out = <<>>
    /\ IdleHeaders
    /\ IdleActor
    /\ IdleLoad

NoApiCall == [op |-> "init", event |-> "", ok |-> TRUE, err |-> "", n |-> 0]

IdlePyrti ==
    /\ modules = <<>>
    /\ unregistered_modules = <<>>
    /\ registered = <<>>
    /\ event_listeners = <<>>
    /\ added = <<>>
    /\ invoked = <<>>
    /\ api = NoApiCall
    /\ rpc = "idle"

InitRanges ==
    /\ IdleRanges
    /\ IdlePyrti
    /\ IdleAlloc
    /\ IdleRom
    /\ IdleMain

AddRange(s, e) ==
    /\ Len(hist) < MaxOps
    /\ rg' = add_range(rg, s, e)
    /\ lastOp' = [op |-> "add_range", s |-> s, e |-> e]
    /\ hist' = Append(hist, lastOp')
    /\ UNCHANGED <<allocVars, reallocVars, mainVars, headerVars, actorVars, loadVars, pyrtiVars>>

ExcludeRange(s, e) ==
    /\ Len(hist) < MaxOps
    /\ exclude_range(rg, s, e).ok
    /\ rg' = exclude_range(rg, s, e).ranges
    /\ lastOp' = [op |-> "exclude_range", s |-> s, e |-> e]
    /\ hist' = Append(hist, lastOp')
    /\ UNCHANGED <<allocVars, reallocVars, mainVars, headerVars, actorVars, loadVars, pyrtiVars>>

NextRanges ==
    \E s \in 0..MaxAddr : \E e \in s..MaxAddr :
        \/ AddRange(s, e)
        \/ ExcludeRange(s, e)

SpecRanges == InitRanges /\ [][NextRanges]_vars

----------------------------------------------------------------------------
(* Claims on Ranges *)

OnlyFrees == \A k \in 1..Len(hist) : hist[k].op = "add_range" /\ hist[k].s < hist[k].e

\* C5: after any sequence of free(start, end) calls with start < end, from an
\* empty free set, no two free ranges overlap or touch; freeing [a,b) and
\* [b,c), in either order, yields the single free range [a,c).
C5_Coalesced ==
    OnlyFrees =>
        /\ \A j, k \in 1..Len(rg) : j # k => ~TouchOrOverlap(rg[j], rg[k])
        /\ (/\ Len(hist) = 2
            /\ \/ hist[1].e = hist[2].s
               \/ hist[2].e = hist[1].s)
           => rg = << <<IF hist[1].s < hist[2].s THEN hist[1].s ELSE hist[2].s,
                        IF hist[1].e > hist[2].e THEN hist[1].e ELSE hist[2].e>> >>

C5_Witness ==
    /\ OnlyFrees
    /\ Len(hist) = 2
    /\ hist[2].e = hist[1].s
    /\ Len(rg) = 1

\* C6: add_range makes the free addresses the old set united with
\* [start, end), exclude_range makes them the old set minus [start, end).
C6_ExactSetOps ==
    [][/\ lastOp'.op = "add_range"
            => Addrs(rg') = Addrs(rg) \cup Interval(lastOp'.s, lastOp'.e)
       /\ lastOp'.op = "exclude_range"
            => Addrs(rg') = Addrs(rg) \ Interval(lastOp'.s, lastOp'.e)]_vars

C6_Witness ==
    /\ lastOp.op = "exclude_range"
    /\ Len(rg) = 2
    /\ rg[1][2] = lastOp.s
    /\ rg[2][1] = lastOp.e
    /\ lastOp.s < lastOp.e

----------------------------------------------------------------------------
(* class RangesAscendingLength *)

\* list.sort(key = length) is stable: x goes after the ranges no longer than it
RECURSIVE InsertByLength(_, _)
InsertByLength(sorted, x) ==
    IF sorted = <<>>
    THEN <<x>>
    ELSE LET last == sorted[Len(sorted)]
         IN  IF last[2] - last[1] <= x[2] - x[1]
             THEN Append(sorted, x)
             ELSE Append(InsertByLength(SubSeq(sorted, 1, Len(sorted) - 1), x), last)

RECURSIVE SortByLength(_)
SortByLength(ranges) ==
    IF ranges = <<>>
    THEN <<>>
    ELSE InsertByLength(SortByLength(SubSeq(ranges, 1, Len(ranges) - 1)),
                        ranges[Len(ranges)])

\* mutant of find_and_exclude_range: the index is clamped to the last range
\* instead of list.pop raising IndexError
find_and_exclude_range_clamped(ranges, length) ==
    LET b == bisect_left(Lengths(ranges), length)
        i == IF b >= Len(ranges) THEN Len(ranges) - 1 ELSE b
    IN  IF Len(ranges) = 0
        THEN [ok |-> FALSE, ranges |-> ranges, start |-> 0, end |-> 0]
        ELSE LET start == ranges[i + 1][1]
                 end == ranges[i + 1][2]
                 popped == Pop(ranges, i)
                 exclude_end == start + length
                 remain_length == end - exclude_end
             IN  [ok |-> TRUE,
                  ranges |-> IF remain_length > 0
                             THEN Insert(popped,
                                         bisect_left(Lengths(popped), remain_length),
                                         <<exclude_end, end>>)
                             ELSE popped,
                  start |-> start,
                  end |-> exclude_end]

\* mutant of find_and_exclude_range: the remainder put back starts at the
\* range's start instead of at the end of the excluded part
find_and_exclude_range_keepsStart(ranges, length) ==
    LET i == bisect_left(Lengths(ranges), length)
    IN  IF i >= Len(ranges)
        THEN [ok |-> FALSE, ranges |-> ranges, start |-> 0, end |-> 0]
        ELSE LET start == ranges[i + 1][1]
                 end == ranges[i + 1][2]
                 popped == Pop(ranges, i)
                 exclude_end == start + length
                 remain_length == end - exclude_end
             IN  [ok |-> TRUE,
                  ranges |-> IF remain_length # 0
                             THEN Insert(popped,
                                         bisect_left(Lengths(popped), remain_length),
                                         <<start, end>>)
                             ELSE popped,
                  start |-> start,
                  end |-> exclude_end]

\* mutant of find_and_exclude_range: bisect_right, a range of exactly the
\* requested length is passed over
find_and_exclude_range_skipsExact(ranges, length) ==
    LET i == bisect_right(Lengths(ranges), length)
    IN  IF i >= Len(ranges)
        THEN [ok |-> FALSE, ranges |-> ranges, start |-> 0, end |-> 0]
        ELSE LET start == ranges[i + 1][1]
                 end == ranges[i + 1][2]
                 popped == Pop(ranges, i)
                 exclude_end == start + length
                 remain_length == end - exclude_end
             IN  [ok |-> TRUE,
                  ranges |-> IF remain_length # 0
                             THEN Insert(popped,
                                         bisect_left(Lengths(popped), remain_length),
                                         <<exclude_end, end>>)
                             ELSE popped,
                  start |-> start,
                  end |-> exclude_end]

\* RangesAscendingLength.find_and_exclude_range; ok = FALSE is the IndexError
\* of ranges.pop(i) when no range is long enough (the list is left as it was)
find_and_exclude_range(ranges, length) ==
    LET i == bisect_left(Lengths(ranges), length)
    IN  IF i >= Len(ranges)
        THEN [ok |-> FALSE, ranges |-> ranges, start |-> 0, end |-> 0]
        ELSE LET start == ranges[i + 1][1]
                 end == ranges[i + 1][2]
                 popped == Pop(ranges, i)
                 exclude_end == start + length
                 remain_length == end - exclude_end
             IN  [ok |-> TRUE,
                  ranges |-> IF remain_length # 0
                             THEN Insert(popped,
                                         bisect_left(Lengths(popped), remain_length),
                                         <<exclude_end, end>>)
                             ELSE popped,
                  start |-> start,
                  end |-> exclude_end]

----------------------------------------------------------------------------
(* class Allocator (exercised by tests/test_pyrt.py; modelled from the      *)
(* specification, sections 3 and 4.1)                                       *)

AlignUp(a, align) == ((a + align - 1) \div align) * align

\* the aligned capacity of a free range is at least size
Fits(r, size, align) == r[2] - AlignUp(r[1], align) >= size

SomeFits(ranges, size, align) == \E k \in 1..Len(ranges) : Fits(ranges[k], size, align)

\* smallest-first scan: the first fitting range in ascending order of length
\* (position order among ranges of one length)
BestFit(ranges, size, align) ==
    CHOOSE k \in 1..Len(ranges) :
        /\ Fits(ranges[k], size, align)
        /\ \A j \in 1..Len(ranges) :
               Fits(ranges[j], size, align) =>
                   \/ Lengths(ranges)[k] < Lengths(ranges)[j]
                   \/ Lengths(ranges)[k] = Lengths(ranges)[j] /\ k <= j

\* mutant of Allocator_alloc: the start of the chosen range is used unaligned
Allocator_alloc_unaligned(ranges, t, size, align) ==
    IF SomeFits(ranges, size, align)
    THEN LET r == ranges[BestFit(ranges, size, align)]
         IN  [ok |-> TRUE, ranges |-> exclude_range(ranges, r[1], r[1] + size).ranges,
              tail |-> t, start |-> r[1], end |-> r[1] + size]
    ELSE IF t.set
    THEN [ok |-> TRUE, ranges |-> ranges, tail |-> [set |-> TRUE, at |-> t.at + size],
          start |-> t.at, end |-> t.at + size]
    ELSE [ok |-> FALSE, ranges |-> ranges, tail |-> t, start |-> 0, end |-> 0]

\* mutant of Allocator_alloc: the gap below the aligned tail is not freed
Allocator_alloc_gapLost(ranges, t, size, align) ==
    IF SomeFits(ranges, size, align)
    THEN LET r == ranges[BestFit(ranges, size, align)]
             a == AlignUp(r[1], align)
         IN  [ok |-> TRUE, ranges |-> exclude_range(ranges, a, a + size).ranges,
              tail |-> t, start |-> a, end |-> a + size]
    ELSE IF t.set
    THEN LET a == AlignUp(t.at, align)
         IN  [ok |-> TRUE, ranges |-> ranges,
              tail |-> [set |-> TRUE, at |-> a + size],
              start |-> a, end |-> a + size]
    ELSE [ok |-> FALSE, ranges |-> ranges, tail |-> t, start |-> 0, end |-> 0]

\* mutant of Allocator_alloc: a request nothing fits is served from the
\* longest free range anyway
Allocator_alloc_neverFails(ranges, t, size, align) ==
    IF SomeFits(ranges, size, align)
    THEN LET r == ranges[BestFit(ranges, size, align)]
             a == AlignUp(r[1], align)
         IN  [ok |-> TRUE, ranges |-> exclude_range(ranges, a, a + size).ranges,
              tail |-> t, start |-> a, end |-> a + size]
    ELSE IF t.set
    THEN LET a == AlignUp(t.at, align)
         IN  [ok |-> TRUE,
              ranges |-> IF t.at # a THEN add_range(ranges, t.at, a) ELSE ranges,
              tail |-> [set |-> TRUE, at |-> a + size],
              start |-> a, end |-> a + size]
    ELSE [ok |-> TRUE, ranges |-> <<>>, tail |-> t, start |-> 0, end |-> size]

\* Allocator.alloc(size, align); ok = FALSE is AllocatorOutOfFreeRanges
Allocator_alloc(ranges, t, size, align) ==
    IF SomeFits(ranges, size, align)
    THEN LET r == ranges[BestFit(ranges, size, align)]
             a == AlignUp(r[1], align)
         IN  [ok |-> TRUE, ranges |-> exclude_range(ranges, a, a + size).ranges,
              tail |-> t, start |-> a, end |-> a + size]
    ELSE IF t.set
    THEN LET a == AlignUp(t.at, align)
         IN  [ok |-> TRUE,
              ranges |-> IF t.at # a THEN add_range(ranges, t.at, a) ELSE ranges,
              tail |-> [set |-> TRUE, at |-> a + size],
              start |-> a, end |-> a + size]
    ELSE [ok |-> FALSE, ranges |-> ranges, tail |-> t, start |-> 0, end |-> 0]

\* Allocator.free(start, end)
Allocator_free(ranges, start, end) == add_range(ranges, start, end)

\* Allocator.alloc_range(start, end)
Allocator_alloc_range(ranges, start, end) == exclude_range(ranges, start, end).ranges

----------------------------------------------------------------------------
(* SpecAlloc: calls on one allocator *)

\* the free list built by freeing the addresses of A below n one by one
RECURSIVE RangesOf(_, _)
RangesOf(A, n) ==
    IF n = 0
    THEN <<>>
    ELSE IF (n - 1) \in A
    THEN add_range(RangesOf(A, n - 1), n - 1, n)
    ELSE RangesOf(A, n - 1)

Sup(A) == IF A = {} THEN 0 ELSE 1 + CHOOSE a \in A : \A b \in A : b <= a

Aligns == {1, 2, 4}

InitAlloc ==
    /\ IdleRanges
    /\ IdlePyrti
    /\ IdleRom
    /\ IdleMain
    /\ \E A \in SUBSET (0..(MaxFreeAddr - 1)) :
        \/ /\ impl = "RangesAscendingLength"
           /\ free_ranges = SortByLength(RangesOf(A, MaxFreeAddr))
           /\ tail = [set |-> FALSE, at |-> 0]
        \/ /\ impl = "Allocator"
           /\ free_ranges = RangesOf(A, MaxFreeAddr)
           /\ \/ tail = [set |-> FALSE, at |-> 0]
              \/ \E t \in Sup(A)..MaxFreeAddr : tail = [set |-> TRUE, at |-> t]
    /\ granted = <<>>
    /\ pure = TRUE
    /\ ret = NoCall

\* free_ranges.find_and_exclude_range(length), as called by realloc_vrom / realloc_rom
FindAndExcludeRange(length) ==
    /\ impl = "RangesAscendingLength"
    /\ ret.n < MaxAllocOps
    /\ LET r == find_and_exclude_range(free_ranges, length)
       IN  /\ free_ranges' = r.ranges
           /\ granted' = IF r.ok THEN Append(granted, <<r.start, r.end>>) ELSE granted
           /\ ret' = [op |-> "alloc", size |-> length, align |-> 1, ok |-> r.ok,
                      start |-> r.start, end |-> r.end, n |-> ret.n + 1]
    /\ UNCHANGED <<impl, tail, pure>>
    /\ UNCHANGED <<rangesVars, reallocVars, mainVars, headerVars, actorVars, loadVars, pyrtiVars>>

\* a.alloc(size, align)
Alloc(size, align) ==
    /\ impl = "Allocator"
    /\ ret.n < MaxAllocOps
    /\ LET r == Allocator_alloc(free_ranges, tail, size, align)
       IN  /\ free_ranges' = r.ranges
           /\ tail' = r.tail
           /\ granted' = IF r.ok THEN Append(granted, <<r.start, r.end>>) ELSE granted
           /\ ret' = [op |-> "alloc", size |-> size, align |-> align, ok |-> r.ok,
                      start |-> r.start, end |-> r.end, n |-> ret.n + 1]
    /\ UNCHANGED <<impl, pure>>
    /\ UNCHANGED <<rangesVars, reallocVars, mainVars, headerVars, actorVars, loadVars, pyrtiVars>>

\* the ranges given to free / alloc_range lie below the tail boundary
CallRange(s, e) ==
    /\ s < e
    /\ e - s <= MaxSize
    /\ tail.set => e <= tail.at

\* a.free(start, end)
Free(s, e) ==
    /\ impl = "Allocator"
    /\ ret.n < MaxAllocOps
    /\ CallRange(s, e)
    /\ free_ranges' = Allocator_free(free_ranges, s, e)
    /\ pure' = FALSE
    /\ ret' = [op |-> "free", size |-> e - s, align |-> 1, ok |-> TRUE,
               start |-> s, end |-> e, n |-> ret.n + 1]
    /\ UNCHANGED <<impl, tail, granted>>
    /\ UNCHANGED <<rangesVars, reallocVars, mainVars, headerVars, actorVars, loadVars, pyrtiVars>>

\* a.alloc_range(start, end)
AllocRange(s, e) ==
    /\ impl = "Allocator"
    /\ ret.n < MaxAllocOps
    /\ CallRange(s, e)
    /\ free_ranges' = Allocator_alloc_range(free_ranges, s, e)
    /\ pure' = FALSE
    /\ ret' = [op |-> "alloc_range", size |-> e - s, align |-> 1, ok |-> TRUE,
               start |-> s, end |-> e, n |-> ret.n + 1]
    /\ UNCHANGED <<impl, tail, granted>>
    /\ UNCHANGED <<rangesVars, reallocVars, mainVars, headerVars, actorVars, loadVars, pyrtiVars>>

NextAlloc ==
    \/ \E length \in 0..MaxSize : FindAndExcludeRange(length)
    \/ \E size \in 1..MaxSize : \E align \in Aligns : Alloc(size, align)
    \/ \E s \in 0..MaxFreeAddr : \E e \in 0..MaxFreeAddr : Free(s, e)
    \/ \E s \in 0..MaxFreeAddr : \E e \in 0..MaxFreeAddr : AllocRange(s, e)

SpecAlloc == InitAlloc /\ [][NextAlloc]_vars

----------------------------------------------------------------------------
(* Claims on allocation *)

Disjoint(r1, r2) == Interval(r1[1], r1[2]) \cap Interval(r2[1], r2[2]) = {}

\* C4: over any sequence of alloc calls on one allocator, no returned range
\* overlaps a range returned by an earlier alloc, and after each alloc the
\* returned range is disjoint from every range still in the free set.
C4_GrantsDisjoint ==
    (pure /\ ret.op = "alloc" /\ ret.ok) =>
        /\ \A k \in 1..(Len(granted) - 1) : Disjoint(granted[k], granted[Len(granted)])
        /\ \A k \in 1..Len(free_ranges) : Disjoint(free_ranges[k], <<ret.start, ret.end>>)

C4_Witness ==
    /\ impl = "RangesAscendingLength"
    /\ Len(granted) = 2
    /\ granted[1][1] < granted[1][2]
    /\ granted[2][1] < granted[2][2]
    /\ Len(free_ranges) >= 1

\* C7: every successful alloc(size, align) returns (start, end) with start a
\* multiple of align and end - start = size.
C7_AlignedSized ==
    (ret.op = "alloc" /\ ret.ok) =>
        /\ ret.start % ret.align = 0
        /\ ret.end - ret.start = ret.size

C7_Witness ==
    /\ impl = "Allocator"
    /\ ret.op = "alloc"
    /\ ret.ok
    /\ ret.align = 4
    /\ ret.start = 4
    /\ \E k \in 1..Len(free_ranges) : free_ranges[k][2] = 4

\* the step serves a request from the free range c
ServedFrom(c, old, new, size, align, start, end) ==
    /\ Fits(c, size, align)
    /\ \A k \in 1..Len(old) : Fits(old[k], size, align) => c[2] - c[1] <= old[k][2] - old[k][1]
    /\ start = AlignUp(c[1], align)
    /\ end = start + size
    /\ RangeSet(new) = (RangeSet(old) \ {c})
                         \cup (IF c[1] < start THEN {<<c[1], start>>} ELSE {})
                         \cup (IF end < c[2] THEN {<<end, c[2]>>} ELSE {})
    /\ Len(new) = Cardinality(RangeSet(new))

\* C8: alloc takes, among the free ranges whose aligned capacity is at least
\* size, one of least length, places the allocation at its aligned start and
\* leaves its unused head and tail in the free set; no other free range is
\* modified.
C8_SmallestFit ==
    [][(ret'.op = "alloc" /\ SomeFits(free_ranges, ret'.size, ret'.align)) =>
          /\ ret'.ok
          /\ \E k \in 1..Len(free_ranges) :
                ServedFrom(free_ranges[k], free_ranges, free_ranges',
                           ret'.size, ret'.align, ret'.start, ret'.end)]_vars

C8_Witness ==
    /\ impl = "RangesAscendingLength"
    /\ ret.op = "alloc"
    /\ ret.ok
    /\ ret.size = 2
    /\ Len(free_ranges) = 2
    /\ \E k \in 1..2 : free_ranges[k][2] - free_ranges[k][1] = 1
    /\ \E k \in 1..2 : free_ranges[k] = <<ret.end, ret.end + 1>>

C10_TailGapAsRange ==
    [][(ret'.op = "alloc" /\ tail.set /\ ~SomeFits(free_ranges, ret'.size, ret'.align)) =>
          LET A == AlignUp(tail.at, ret'.align)
          IN  /\ ret'.ok
              /\ ret'.start = A
              /\ ret'.end = A + ret'.size
              /\ tail' = [set |-> TRUE, at |-> A + ret'.size]
              /\ RangeSet(free_ranges') =
                    RangeSet(free_ranges) \cup (IF tail.at < A THEN {<<tail.at, A>>} ELSE {})]_vars

\* C10 amended: ... makes the free addresses the old ones plus those of the
\* gap [T, A), the gap being merged with the free range that ends at T when
\* there is one; the free ranges that do not end at T are unchanged.
C10_TailGapCoalesced ==
    [][(ret'.op = "alloc" /\ tail.set /\ ~SomeFits(free_ranges, ret'.size, ret'.align)) =>
          LET A == AlignUp(tail.at, ret'.align)
              atTail == {r \in RangeSet(free_ranges) : r[2] = tail.at}
          IN  /\ ret'.ok
              /\ ret'.start = A
              /\ ret'.end = A + ret'.size
              /\ tail' = [set |-> TRUE, at |-> A + ret'.size]
              /\ Addrs(free_ranges') = Addrs(free_ranges) \cup Interval(tail.at, A)
              /\ RangeSet(free_ranges) \ atTail \subseteq RangeSet(free_ranges')
              /\ tail.at = A => free_ranges' = free_ranges
              /\ (tail.at < A /\ atTail = {}) =>
                    RangeSet(free_ranges') = RangeSet(free_ranges) \cup {<<tail.at, A>>}
              /\ \A r \in atTail : tail.at < A =>
                    RangeSet(free_ranges') = (RangeSet(free_ranges) \ {r}) \cup {<<r[1], A>>}]_vars

C10_Witness ==
    /\ ret.op = "alloc"
    /\ ret.ok
    /\ tail.set
    /\ tail.at = ret.end
    /\ \E k \in 1..Len(free_ranges) :
          /\ free_ranges[k][2] = ret.start
          /\ free_ranges[k][1] < ret.start - 3

----------------------------------------------------------------------------
(* class ROM: reallocation *)

KeyLess_lenOnly(f, g) == f.len < g.len

\* the sort key (len(file.data), file.dma_entry.name)
KeyLess(f, g) == f.len < g.len \/ (f.len = g.len /\ f.name < g.name)

\* list.sort(key, reverse = True) is stable: x goes after the files whose key
\* is not smaller than its own
RECURSIVE InsertDescending(_, _, _)
InsertDescending(fs, sorted, x) ==
    IF sorted = <<>>
    THEN <<x>>
    ELSE LET last == sorted[Len(sorted)]
         IN  IF ~KeyLess(fs[last], fs[x])
             THEN Append(sorted, x)
             ELSE Append(InsertDescending(fs, SubSeq(sorted, 1, Len(sorted) - 1), x), last)

RECURSIVE SortDescending(_, _)
SortDescending(fs, order) ==
    IF order = <<>>
    THEN <<>>
    ELSE InsertDescending(fs, SortDescending(fs, SubSeq(order, 1, Len(order) - 1)),
                          order[Len(order)])

Elems(seq) == {seq[k] : k \in 1..Len(seq)}

\* mutant of AssignVrom: the ROM end is reset as well
AssignVrom_resetsRom(f, start, end) ==
    [f EXCEPT !.vrom_start = start, !.vrom_end = end, !.rom_end = start]

\* file.dma_entry.vrom_start = start; file.dma_entry.vrom_end = end
AssignVrom(f, start, end) == [f EXCEPT !.vrom_start = start, !.vrom_end = end]

\* file.dma_entry.rom_start = start; file.dma_entry.rom_end = 0
AssignRom(f, start, end) == [f EXCEPT !.rom_start = start, !.rom_end = 0]

\* mutant of ExcludeFixedVrom: the length of a fixed file is not checked
RECURSIVE ExcludeFixedVrom_noSizeCheck(_, _, _, _)
ExcludeFixedVrom_noSizeCheck(fs, moveable, ranges, i) ==
    IF i > Len(fs)
    THEN [ok |-> TRUE, err |-> "", ranges |-> ranges]
    ELSE IF i \in moveable
    THEN ExcludeFixedVrom_noSizeCheck(fs, moveable, ranges, i + 1)
    ELSE LET x == exclude_range(ranges, fs[i].vrom_start, fs[i].vrom_end)
         IN  IF ~x.ok
             THEN [ok |-> FALSE, err |-> "disjointed", ranges |-> x.ranges]
             ELSE ExcludeFixedVrom_noSizeCheck(fs, moveable, x.ranges, i + 1)

\* the loop of realloc_vrom over the files that are not movable, from file i on
RECURSIVE ExcludeFixedVrom(_, _, _, _)
ExcludeFixedVrom(fs, moveable, ranges, i) ==
    IF i > Len(fs)
    THEN [ok |-> TRUE, err |-> "", ranges |-> ranges]
    ELSE IF i \in moveable
    THEN ExcludeFixedVrom(fs, moveable, ranges, i + 1)
    ELSE LET x == exclude_range(ranges, fs[i].vrom_start, fs[i].vrom_end)
         IN  IF ~x.ok
             THEN [ok |-> FALSE, err |-> "disjointed", ranges |-> x.ranges]
             ELSE IF fs[i].len # fs[i].vrom_end - fs[i].vrom_start
             THEN [ok |-> FALSE, err |-> "fixed file resized", ranges |-> x.ranges]
             ELSE ExcludeFixedVrom(fs, moveable, x.ranges, i + 1)

\* the loop of realloc_rom over the files that are not movable, from file i on
RECURSIVE ExcludeFixedRom(_, _, _, _)
ExcludeFixedRom(fs, moveable, ranges, i) ==
    IF i > Len(fs)
    THEN [ok |-> TRUE, err |-> "", ranges |-> ranges]
    ELSE IF i \in moveable
    THEN ExcludeFixedRom(fs, moveable, ranges, i + 1)
    ELSE LET x == exclude_range(ranges, fs[i].rom_start, fs[i].rom_start + fs[i].len)
         IN  IF ~x.ok
             THEN [ok |-> FALSE, err |-> "disjointed", ranges |-> x.ranges]
             ELSE ExcludeFixedRom(fs, moveable, x.ranges, i + 1)

\* the loops of realloc_vrom and realloc_rom over the sorted movable files,
\* from the k-th on; r is what find_and_exclude_range returned for that file;
\* assigned is the files the loop gave a range to, in the order it did
RECURSIVE FitVrom(_, _, _, _)
FitVromFile(fs, sorted, ranges, k, r) ==
    IF ~r.ok
    THEN [ok |-> FALSE, err |-> "IndexError", files |-> fs, ranges |-> ranges,
          assigned |-> SubSeq(sorted, 1, k - 1)]
    ELSE FitVrom([fs EXCEPT ![sorted[k]] = AssignVrom(@, r.start, r.end)],
                 sorted, r.ranges, k + 1)

FitVrom(fs, sorted, ranges, k) ==
    IF k > Len(sorted)
    THEN [ok |-> TRUE, err |-> "", files |-> fs, ranges |-> ranges, assigned |-> sorted]
    ELSE FitVromFile(fs, sorted, ranges, k,
                     find_and_exclude_range(ranges, fs[sorted[k]].len))

RECURSIVE FitRom(_, _, _, _)
FitRomFile(fs, sorted, ranges, k, r) ==
    IF ~r.ok
    THEN [ok |-> FALSE, err |-> "IndexError", files |-> fs, ranges |-> ranges,
          assigned |-> SubSeq(sorted, 1, k - 1)]
    ELSE FitRom([fs EXCEPT ![sorted[k]] = AssignRom(@, r.start, r.end)],
                sorted, r.ranges, k + 1)

FitRom(fs, sorted, ranges, k) ==
    IF k > Len(sorted)
    THEN [ok |-> TRUE, err |-> "", files |-> fs, ranges |-> ranges, assigned |-> sorted]
    ELSE FitRomFile(fs, sorted, ranges, k,
                    find_and_exclude_range(ranges, fs[sorted[k]].len))

\* ROM.realloc_vrom(max_vrom, moveable_vrom); Ranges() is the list dr, which
\* the call leaves in the state the allocation loop (or the error) left it;
\* order is list(moveable_vrom)
realloc_vrom(fs, dr, max_vrom, order) ==
    LET dynamic == ExcludeFixedVrom(fs, Elems(order), add_range(dr, 0, max_vrom), 1)
    IN  IF ~dynamic.ok
        THEN [ok |-> FALSE, err |-> dynamic.err, files |-> fs, ranges |-> dynamic.ranges,
              assigned |-> <<>>]
        ELSE FitVrom(fs, SortDescending(fs, order), SortByLength(dynamic.ranges), 1)

\* ROM.realloc_rom(max_rom, moveable_rom)
realloc_rom(fs, dr, max_rom, order) ==
    LET dynamic == ExcludeFixedRom(fs, Elems(order), add_range(dr, 0, max_rom), 1)
    IN  IF ~dynamic.ok
        THEN [ok |-> FALSE, err |-> dynamic.err, files |-> fs, ranges |-> dynamic.ranges,
              assigned |-> <<>>]
        ELSE FitRom(fs, SortDescending(fs, order), SortByLength(dynamic.ranges), 1)

----------------------------------------------------------------------------
(* SpecRealloc: reallocation calls on a parsed image *)

\* list(moveable): the elements of a set in any order
Orders(S) == {o \in [1..Cardinality(S) -> S] : \A j, k \in 1..Cardinality(S) : o[j] = o[k] => j = k}

\* files laid out one after the other, gap[k] unused addresses before file k;
\* as main() builds them, data is the slice rom_start .. rom_start + size
RECURSIVE Layout(_, _, _, _)
Layout(sizes, gaps, from, k) ==
    IF k > Len(sizes)
    THEN <<>>
    ELSE <<[name |-> k, len |-> sizes[k],
            vrom_start |-> from + gaps[k], vrom_end |-> from + gaps[k] + sizes[k],
            rom_start |-> from + gaps[k], rom_end |-> 0]>>
         \o Layout(sizes, gaps, from + gaps[k] + sizes[k], k + 1)

Ceilings == {Ceiling - 3, Ceiling}

InitRealloc ==
    /\ IdleRanges
    /\ IdlePyrti
    /\ IdleAlloc
    /\ IdleMain
    /\ \E sizes \in [1..3 -> 1..MaxLen] : \E g1, g3 \in 0..1 :
          LET parsed == Layout(sizes, <<g1, 0, g3>>, 0, 1)
          IN  \/ files = parsed
              \* a file's data was replaced by data of another length
              \/ \E k \in 1..3 : files = [parsed EXCEPT ![k].len = @ + 1]
    /\ default_ranges = <<>>
    /\ call = NoRealloc

\* an error raised by a reallocation is not caught: the process ends
ReallocVrom(max_vrom, order) ==
    /\ call.n < MaxReallocs
    /\ call.ok
    /\ \E r \in {realloc_vrom(files, default_ranges, max_vrom, order)} :
           /\ files' = r.files
           /\ default_ranges' = r.ranges
           /\ call' = [op |-> "realloc_vrom", max |-> max_vrom, moveable |-> Elems(order),
                       ok |-> r.ok, err |-> r.err, assigned |-> r.assigned,
                       n |-> call.n + 1]
    /\ UNCHANGED <<rangesVars, allocVars, mainVars, headerVars, actorVars, loadVars, pyrtiVars>>

ReallocRom(max_rom, order) ==
    /\ call.n < MaxReallocs
    /\ call.ok
    /\ \E r \in {realloc_rom(files, default_ranges, max_rom, order)} :
           /\ files' = r.files
           /\ default_ranges' = r.ranges
           /\ call' = [op |-> "realloc_rom", max |-> max_rom, moveable |-> Elems(order),
                       ok |-> r.ok, err |-> r.err, assigned |-> r.assigned,
                       n |-> call.n + 1]
    /\ UNCHANGED <<rangesVars, allocVars, mainVars, headerVars, actorVars, loadVars, pyrtiVars>>

NextRealloc ==
    \/ \E max \in Ceilings : \E moveable \in SUBSET (1..Len(files)) :
          \E order \in Orders(moveable) : ReallocVrom(max, order)
    \/ \E max \in Ceilings : \E moveable \in SUBSET (1..Len(files)) :
          \E order \in Orders(moveable) : ReallocRom(max, order)

SpecRealloc == InitRealloc /\ [][NextRealloc]_vars

----------------------------------------------------------------------------
(* Claims on reallocation *)

\* the range a file occupies in the address space of the last call
VromRange(f) == <<f.vrom_start, f.vrom_end>>

RomRange(f) == <<f.rom_start, f.rom_start + f.len>>

SpaceRange(f) == IF call.op = "realloc_vrom" THEN VromRange(f) ELSE RomRange(f)

\* C2: after a successful reallocation in either address space, every movable
\* file with non-empty data occupies [start, start+len(data)) inside
\* [0, ceiling), disjoint from the range of every other movable file and from
\* the current range of every fixed file.
C2_PlacedDisjoint ==
    (call.op \in {"realloc_vrom", "realloc_rom"} /\ call.ok) =>
        \A i \in call.moveable :
            files[i].len > 0 =>
                /\ SpaceRange(files[i])[2] = SpaceRange(files[i])[1] + files[i].len
                /\ 0 <= SpaceRange(files[i])[1]
                /\ SpaceRange(files[i])[2] <= call.max
                /\ \A j \in 1..Len(files) :
                      j # i => Disjoint(SpaceRange(files[i]), SpaceRange(files[j]))

\* the same, for the first reallocation made in a process (the list that
\* Ranges() returns is still empty when it starts)
FirstCallPlacedDisjoint == call.n <= 1 => C2_PlacedDisjoint

\* C3: realloc_vrom changes vrom_start/vrom_end only of files in its movable
\* set and never changes rom_start, rom_end or data; realloc_rom changes
\* rom_start/rom_end only of files in its movable set and never changes
\* vrom_start or vrom_end.
C3_Frame ==
    [][/\ Len(files') = Len(files)
       /\ \A i \in 1..Len(files) :
            /\ files'[i].len = files[i].len
            /\ files'[i].name = files[i].name
            /\ call'.op = "realloc_vrom" =>
                  /\ files'[i].rom_start = files[i].rom_start
                  /\ files'[i].rom_end = files[i].rom_end
                  /\ i \notin call'.moveable =>
                        /\ files'[i].vrom_start = files[i].vrom_start
                        /\ files'[i].vrom_end = files[i].vrom_end
            /\ call'.op = "realloc_rom" =>
                  /\ files'[i].vrom_start = files[i].vrom_start
                  /\ files'[i].vrom_end = files[i].vrom_end
                  /\ i \notin call'.moveable =>
                        /\ files'[i].rom_start = files[i].rom_start
                        /\ files'[i].rom_end = files[i].rom_end]_vars

\* a file moved in VROM by the first call and fixed in ROM in the second
C3_Witness ==
    /\ call.n = 2
    /\ call.op = "realloc_rom"
    /\ call.ok
    /\ \E i \in 1..Len(files) :
          /\ i \notin call.moveable
          /\ files[i].vrom_start # files[i].rom_start
          /\ \E j \in call.moveable : files[j].rom_start # files[j].vrom_start

\* C11: after a reallocation, the start address given to every movable file
\* (vrom_start by realloc_vrom, rom_start by realloc_rom) is a multiple of
\* the alignment, 16 bytes.
C11_StartsAligned ==
    (call.op \in {"realloc_vrom", "realloc_rom"} /\ call.ok) =>
        \A i \in call.moveable : SpaceRange(files[i])[1] % 16 = 0

\* a file fixed in VROM whose data is not as long as its VROM range
ResizedFixed(fs, moveable) ==
    \E i \in (1..Len(fs)) \ moveable : fs[i].len # fs[i].vrom_end - fs[i].vrom_start

\* C12: when a file that is fixed in VROM has len(data) different from
\* vrom_end - vrom_start, realloc_vrom fails, and no file's vrom_start or
\* vrom_end has been changed when it does.
C12_ResizedFixedAborts ==
    [][(/\ call'.n = call.n + 1
        /\ call'.op = "realloc_vrom"
        /\ ResizedFixed(files, call'.moveable))
       => (/\ ~call'.ok
           /\ Len(files') = Len(files)
           /\ \A i \in 1..Len(files) : VromRange(files'[i]) = VromRange(files[i]))]_vars

\* realloc_vrom failed on the length check, with other files movable
C12_Witness ==
    /\ call.op = "realloc_vrom"
    /\ ~call.ok
    /\ call.err = "fixed file resized"
    /\ call.moveable # {}
    /\ ResizedFixed(files, call.moveable)

----------------------------------------------------------------------------
(* SpecNames: a reallocation call on files whose names may be equal *)

\* parse_dma_table takes each name from the filename table of the image
InitNames ==
    /\ IdleRanges
    /\ IdlePyrti
    /\ IdleAlloc
    /\ IdleMain
    /\ \E sizes \in [1..3 -> 1..MaxLen] : \E names \in [1..3 -> 1..MaxNames] :
          LET parsed == Layout(sizes, <<0, 0, 0>>, 0, 1)
          IN  files = [k \in 1..3 |-> [parsed[k] EXCEPT !.name = names[k]]]
    /\ default_ranges = <<>>
    /\ call = NoRealloc

NextNames ==
    \/ \E max \in Ceilings : \E moveable \in SUBSET (1..Len(files)) :
          \E order \in Orders(moveable) : call.n = 0 /\ ReallocVrom(max, order)
    \/ \E max \in Ceilings : \E moveable \in SUBSET (1..Len(files)) :
          \E order \in Orders(moveable) : call.n = 0 /\ ReallocRom(max, order)

SpecNames == InitNames /\ [][NextNames]_vars

\* the call of this step gives the same files for every order of its movable set
SameForEveryOrder ==
    \A o \in Orders(call'.moveable) :
        /\ call'.op = "realloc_vrom" =>
               realloc_vrom(files, default_ranges, call'.max, o).files = files'
        /\ call'.op = "realloc_rom" =>
               realloc_rom(files, default_ranges, call'.max, o).files = files'

\* C13: for the same file list (data lengths, names, current ranges) and the
\* same movable set, realloc_vrom and realloc_rom give every file the same
\* addresses whatever order the movable set is iterated in.
C13_OrderIndependent ==
    [][call'.n = call.n + 1 => SameForEveryOrder]_vars

\* no two movable files of the call of this step have the same length and name
DistinctKeys ==
    \A i, j \in call'.moveable :
        (files[i].len = files[j].len /\ files[i].name = files[j].name) => i = j

\* the same, for movable files that the sort key tells apart
OrderIndependentDistinctKeys ==
    [][(call'.n = call.n + 1 /\ DistinctKeys) => SameForEveryOrder]_vars

----------------------------------------------------------------------------
(* Table codecs *)

\* the configuration of the image the pipeline runs on, as
\* version_info_mq_debug is the configuration of the debug ROM
version_info ==
    [dmaentry_index_makerom |-> 0,
     dmaentry_index_boot |-> 1,
     dmaentry_index_dmadata |-> 2,
     dmaentry_index_code |-> CodeIndex,
     scene_table_length |-> SceneTableLength,
     code_vram_start |-> 100,
     actor_overlay_table_length |-> ActorTableLength]

find_file_by_vrom_first(fs, vrom) ==
    LET matching_files == {i \in 1..Len(fs) :
                              vrom >= fs[i].vrom_start /\ vrom < fs[i].vrom_end}
    IN  IF matching_files # {}
        THEN [ok |-> TRUE, file |-> CHOOSE i \in matching_files :
                                        \A j \in matching_files : i <= j]
        ELSE [ok |-> FALSE, file |-> 0]

\* ROM.find_file_by_vrom; ok = FALSE is the failed assert
find_file_by_vrom(fs, vrom) ==
    LET matching_files == {i \in 1..Len(fs) :
                              vrom >= fs[i].vrom_start /\ vrom < fs[i].vrom_end}
    IN  IF Cardinality(matching_files) = 1
        THEN [ok |-> TRUE, file |-> CHOOSE i \in matching_files : TRUE]
        ELSE [ok |-> FALSE, file |-> 0]

\* find_file_by_vrom(vrom_start) followed by the two asserts on the result
ResolveFile(fs, vrom_start, vrom_end) ==
    LET found == find_file_by_vrom(fs, vrom_start)
    IN  IF found.ok /\ fs[found.file].vrom_start = vrom_start
                    /\ fs[found.file].vrom_end = vrom_end
        THEN found
        ELSE [ok |-> FALSE, file |-> 0]

\* one iteration of the loop of parse_object_table
ParseObjectEntry(fs, entry) ==
    IF entry[1] > entry[2]
    THEN [ok |-> FALSE, file |-> 0]
    ELSE IF entry[1] = 0 /\ entry[2] = 0
    THEN [ok |-> TRUE, file |-> 0]
    ELSE IF entry[1] = entry[2]
    THEN [ok |-> TRUE, file |-> 0]
    ELSE ResolveFile(fs, entry[1], entry[2])

\* parse_object_table: the decoded table, ok = FALSE when an assert failed
parse_object_table(fs, obj) ==
    [ok |-> \A k \in 1..Len(obj) : ParseObjectEntry(fs, obj[k]).ok,
     table |-> [k \in 1..Len(obj) |-> ParseObjectEntry(fs, obj[k]).file]]

\* one iteration of the loop of parse_scene_table
ParseSceneEntry(fs, entry) ==
    LET scene == ResolveFile(fs, entry.scene[1], entry.scene[2])
        title == IF entry.title[1] = 0 /\ entry.title[2] = 0
                 THEN [ok |-> TRUE, file |-> 0]
                 ELSE ResolveFile(fs, entry.title[1], entry.title[2])
    IN  [ok |-> /\ entry.scene[1] <= entry.scene[2]
                /\ entry.title[1] <= entry.title[2]
                /\ scene.ok
                /\ title.ok,
         entry |-> [scene_file |-> scene.file, title_file |-> title.file,
                    unk_10 |-> entry.unk_10, config |-> entry.config,
                    unk_12 |-> entry.unk_12, unk_13 |-> entry.unk_13]]

parse_scene_table(fs, scene) ==
    [ok |-> \A k \in 1..version_info.scene_table_length :
                ParseSceneEntry(fs, scene[k]).ok,
     table |-> [k \in 1..version_info.scene_table_length |->
                   ParseSceneEntry(fs, scene[k]).entry]]

\* the room list loop of parse_scene_headers, for the room list of one scene
ParseRoomList(fs, rooms) ==
    [ok |-> \A k \in 1..Len(rooms) :
                rooms[k][1] <= rooms[k][2] /\ ResolveFile(fs, rooms[k][1], rooms[k][2]).ok,
     list |-> [k \in 1..Len(rooms) |-> ResolveFile(fs, rooms[k][1], rooms[k][2]).file]]

\* parse_scene_headers: the room list of every scene table entry
parse_scene_headers(fs, table, rooms) ==
    [ok |-> \A k \in 1..Len(table) : ParseRoomList(fs, rooms[table[k].scene_file]).ok,
     rooms |-> [k \in 1..Len(table) |-> ParseRoomList(fs, rooms[table[k].scene_file]).list]]

\* pack_object_table: the records written into rom.file_code.data
pack_object_table(fs, table) ==
    [k \in 1..Len(table) |->
        IF table[k] # 0 THEN VromRange(fs[table[k]]) ELSE <<0, 0>>]

pack_scene_table_swapsUnk(fs, table) ==
    [k \in 1..Len(table) |->
        [scene |-> VromRange(fs[table[k].scene_file]),
         title |-> IF table[k].title_file # 0
                   THEN VromRange(fs[table[k].title_file])
                   ELSE <<0, 0>>,
         unk_10 |-> table[k].unk_10,
         config |-> table[k].config,
         unk_12 |-> table[k].unk_13,
         unk_13 |-> table[k].unk_12]]

\* pack_scene_table: the records written into rom.file_code.data
pack_scene_table(fs, table) ==
    [k \in 1..Len(table) |->
        [scene |-> VromRange(fs[table[k].scene_file]),
         title |-> IF table[k].title_file # 0
                   THEN VromRange(fs[table[k].title_file])
                   ELSE <<0, 0>>,
         unk_10 |-> table[k].unk_10,
         config |-> table[k].config,
         unk_12 |-> table[k].unk_12,
         unk_13 |-> table[k].unk_13]]

ZeroRecord == <<0, 0, 0, 0>>

DmaRecord(f) == <<f.vrom_start, f.vrom_end, f.rom_start, f.rom_end>>

\* mutant of pack_dma_table: the table is as long as the list of files
pack_dma_table_lenOfFiles(fs, old) ==
    [k \in 1..Len(fs) |-> DmaRecord(fs[k])]

\* pack_dma_table: a zero-filled table as long as the old one, record i from files[i]
pack_dma_table(fs, old) ==
    [k \in 1..Len(old) |-> IF k <= Len(fs) THEN DmaRecord(fs[k]) ELSE ZeroRecord]

\* pack_room_lists: the room list written into each scene file
RECURSIVE pack_room_lists(_, _, _, _, _)
pack_room_lists(fs, table, by_scene, rooms, k) ==
    IF k > Len(table)
    THEN rooms
    ELSE pack_room_lists(fs, table, by_scene,
                         [rooms EXCEPT ![table[k].scene_file] =
                             [j \in 1..Len(by_scene[k]) |-> VromRange(fs[by_scene[k][j]])]],
                         k + 1)

\* realloc_moveable_vrom: the files the decoded tables refer to
moveable_vrom(table, scenes, by_scene) ==
    {table[k] : k \in {j \in 1..Len(table) : table[j] # 0}}
        \cup {scenes[k].scene_file : k \in 1..Len(scenes)}
        \cup UNION {Elems(by_scene[k]) : k \in 1..Len(by_scene)}

\* realloc_moveable_rom: every file but makerom, boot, dmadata and files[3..5]
moveable_rom(fs) ==
    (1..Len(fs)) \ {version_info.dmaentry_index_makerom + 1,
                    version_info.dmaentry_index_boot + 1,
                    version_info.dmaentry_index_dmadata + 1,
                    3 + 1, 4 + 1, 5 + 1}

max_vrom == MaxImage

max_rom == MaxImage

----------------------------------------------------------------------------
(* The pipeline of main() *)

\* the loop of parse_dma_table: one entry per record that is not all zero
RECURSIVE ParseDmaLoop(_, _)
ParseDmaLoop(records, k) ==
    IF k > Len(records)
    THEN <<>>
    ELSE (IF records[k] = ZeroRecord
          THEN <<>>
          ELSE <<[name |-> k, len |-> records[k][2] - records[k][1],
                  vrom_start |-> records[k][1], vrom_end |-> records[k][2],
                  rom_start |-> records[k][3], rom_end |-> records[k][4]]>>)
         \o ParseDmaLoop(records, k + 1)

\* parse_dma_table and the loop of main() that builds rom.files from it
parse_dma_table(records) ==
    [ok |-> \A k \in 1..Len(records) :
                records[k] # ZeroRecord =>
                    records[k][1] <= records[k][2] /\ records[k][4] = 0,
     files |-> ParseDmaLoop(records, 1)]

\* max() of a non-empty set of numbers
Max(S) == CHOOSE x \in S : \A y \in S : x >= y

write_atVrom(fs) ==
    LET size == Max({fs[i].rom_start + fs[i].len : i \in 1..Len(fs)})
        covering(a) == {i \in 1..Len(fs) :
                           fs[i].vrom_start <= a /\ a < fs[i].vrom_start + fs[i].len}
    IN  [k \in 1..size |->
            IF covering(k - 1) = {} THEN 0 ELSE fs[Max(covering(k - 1))].name]

\* ROM.write: each file's data copied at its rom_start, in the order of rom.files
write(fs) ==
    LET size == Max({fs[i].rom_start + fs[i].len : i \in 1..Len(fs)})
        covering(a) == {i \in 1..Len(fs) :
                           fs[i].rom_start <= a /\ a < fs[i].rom_start + fs[i].len}
    IN  [k \in 1..size |->
            IF covering(k - 1) = {} THEN 0 ELSE fs[Max(covering(k - 1))].name]

\* orders in which the pipeline iterates a set of files
RECURSIVE Ascending(_)
Ascending(S) ==
    IF S = {}
    THEN <<>>
    ELSE LET m == CHOOSE x \in S : \A y \in S : x <= y
         IN  <<m>> \o Ascending(S \ {m})

Reverse(s) == [k \in 1..Len(s) |-> s[Len(s) + 1 - k]]

SetOrders(S) == {Ascending(S), Reverse(Ascending(S))}

\* positions of the data files of the image (after the privileged files)
ObjectFile == version_info.dmaentry_index_code + 2
SceneFile == version_info.dmaentry_index_code + 3
RoomFile == version_info.dmaentry_index_code + 4
TitleFile == version_info.dmaentry_index_code + 5

\* the image main() reads: makerom, boot, dmadata, three audio files and code
\* of length 1, then an object, a scene, a room and a title file; the object
\* file may overlap the code file, the files before code may be one address
\* apart, the DMA table may hold an all-zero record at its end or after the
\* record of code
Init ==
    /\ IdleRanges
    /\ IdlePyrti
    /\ IdleAlloc
    /\ IdleHeaders
    /\ IdleActor
    /\ IdleLoad
    /\ files = <<>>
    /\ default_ranges = <<>>
    /\ call = NoRealloc
    /\ pc = "start"
    /\ \E olen, rlen \in 1..MaxFileLen : \E gap \in -1..1 : \E pad \in 0..2 :
       \E mutable, apart \in BOOLEAN :
         LET n == TitleFile
             c == version_info.dmaentry_index_code + 1
             sizes == [k \in 1..n |-> IF k = ObjectFile THEN olen
                                      ELSE IF k = RoomFile THEN rlen ELSE 1]
             gaps == [k \in 1..n |-> IF k = ObjectFile THEN gap
                                     ELSE IF apart /\ k \in 2..6 THEN 1 ELSE 0]
             img == Layout(sizes, gaps, 0, 1)
             object == VromRange(img[ObjectFile])
             records == [k \in 1..n |-> DmaRecord(img[k])]
         IN  /\ dmadata = (IF pad = 0 THEN records
                           ELSE IF pad = 1 THEN Append(records, ZeroRecord)
                           ELSE SubSeq(records, 1, c) \o <<ZeroRecord>>
                                    \o SubSeq(records, c + 1, n))
             /\ \E o1 \in {<<0, 0>>, object, <<object[1], object[2] + 1>>} :
                \E o2 \in {<<1, 1>>, object, VromRange(img[TitleFile]),
                            <<MaxImage - 1, MaxImage>>} :
                \E title \in {<<0, 0>>, <<1, 1>>, VromRange(img[TitleFile])} :
                \E unk \in {<<0, 0, 0, 0>>, <<1, 2, 3, 4>>} :
                    code = [obj |-> <<o1, o2>>,
                            scene |-> [k \in 1..version_info.scene_table_length |->
                                          [scene |-> VromRange(img[SceneFile]),
                                           title |-> title,
                                           unk_10 |-> unk[1], config |-> unk[2],
                                           unk_12 |-> unk[3], unk_13 |-> unk[4]]],
                            mutable |-> mutable]
             /\ \E rooms \in {<<VromRange(img[RoomFile])>>,
                              <<VromRange(img[RoomFile]), VromRange(img[RoomFile])>>} :
                    scene_rooms = [k \in 1..n |-> IF k = SceneFile THEN rooms ELSE <<>>]
    /\ code_data = [obj |-> <<>>, scene |-> <<>>, mutable |-> TRUE]
    /\ object_table = <<>>
    /\ scene_table = <<>>
    /\ rooms_by_scene = <<>>
    /\ out = <<>>

\* main(): rom.parse_dma_table, rom.files and the privileged files
LoadFiles ==
    /\ pc = "start"
    /\ \E r \in {parse_dma_table(dmadata)} :
           /\ files' = (IF r.ok THEN r.files ELSE files)
           /\ pc' = (IF r.ok THEN "loaded" ELSE "aborted")
    /\ UNCHANGED <<pyrtiVars, rangesVars, allocVars, headerVars, actorVars, loadVars, default_ranges, call, dmadata, code, code_data,
                   scene_rooms, object_table, scene_table, rooms_by_scene, out>>

\* main(): pyrti.raise_event(EVENT_DMA_LOAD_DONE), the parse listeners
RaiseDmaLoadDone ==
    /\ pc = "loaded"
    /\ \E o \in {parse_object_table(files, code.obj)} :
       \E s \in {parse_scene_table(files, code.scene)} :
           /\ object_table' = (IF o.ok /\ s.ok THEN o.table ELSE object_table)
           /\ scene_table' = (IF o.ok /\ s.ok THEN s.table ELSE scene_table)
           /\ pc' = (IF o.ok /\ s.ok THEN "parsed" ELSE "aborted")
    /\ UNCHANGED <<pyrtiVars, rangesVars, allocVars, headerVars, actorVars, loadVars, reallocVars, dmadata, code, code_data,
                   scene_rooms, rooms_by_scene, out>>

\* main(): rom.rooms_by_scene = rom.parse_scene_headers()
ParseSceneHeaders ==
    /\ pc = "parsed"
    /\ \E r \in {parse_scene_headers(files, scene_table, scene_rooms)} :
           /\ rooms_by_scene' = (IF r.ok THEN r.rooms ELSE rooms_by_scene)
           /\ pc' = (IF r.ok THEN "headers" ELSE "aborted")
    /\ UNCHANGED <<pyrtiVars, rangesVars, allocVars, headerVars, actorVars, loadVars, reallocVars, dmadata, code, code_data,
                   scene_rooms, object_table, scene_table, out>>

\* main(): rom.realloc_moveable_vrom(move_vrom)
ReallocMoveableVrom ==
    /\ pc = "headers"
    /\ \E order \in SetOrders(moveable_vrom(object_table, scene_table, rooms_by_scene)) :
       \E r \in {realloc_vrom(files, default_ranges, max_vrom, order)} :
           /\ files' = r.files
           /\ default_ranges' = r.ranges
           /\ call' = [op |-> "realloc_vrom", max |-> max_vrom, moveable |-> Elems(order),
                       ok |-> r.ok, err |-> r.err, assigned |-> r.assigned,
                       n |-> call.n + 1]
           /\ pc' = (IF r.ok THEN "vrom_done" ELSE "aborted")
    /\ UNCHANGED <<pyrtiVars, rangesVars, allocVars, headerVars, actorVars, loadVars, dmadata, code, code_data, scene_rooms,
                   object_table, scene_table, rooms_by_scene, out>>

\* main(): rom.realloc_moveable_rom(move_rom)
ReallocMoveableRom ==
    /\ pc = "vrom_done"
    /\ \E order \in SetOrders(moveable_rom(files)) :
       \E r \in {realloc_rom(files, default_ranges, max_rom, order)} :
           /\ files' = r.files
           /\ default_ranges' = r.ranges
           /\ call' = [op |-> "realloc_rom", max |-> max_rom, moveable |-> Elems(order),
                       ok |-> r.ok, err |-> r.err, assigned |-> r.assigned,
                       n |-> call.n + 1]
           /\ pc' = (IF r.ok THEN "rom_done" ELSE "aborted")
    /\ UNCHANGED <<pyrtiVars, rangesVars, allocVars, headerVars, actorVars, loadVars, dmadata, code, code_data, scene_rooms,
                   object_table, scene_table, rooms_by_scene, out>>

PackDmaTable_early ==
    /\ pc \in {"vrom_done", "rom_done"}
    /\ dmadata' = pack_dma_table(files, dmadata)
    /\ pc' = "dma_packed"
    /\ UNCHANGED <<pyrtiVars, rangesVars, allocVars, headerVars, actorVars, loadVars, reallocVars, code, code_data, scene_rooms,
                   object_table, scene_table, rooms_by_scene, out>>

\* main(): rom.pack_dma_table()
PackDmaTable ==
    /\ pc = "rom_done"
    /\ dmadata' = pack_dma_table(files, dmadata)
    /\ pc' = "dma_packed"
    /\ UNCHANGED <<pyrtiVars, rangesVars, allocVars, headerVars, actorVars, loadVars, reallocVars, code, code_data, scene_rooms,
                   object_table, scene_table, rooms_by_scene, out>>

\* main(): rom.code_data = bytearray(rom.file_code.data)
CopyCodeData ==
    /\ pc = "dma_packed"
    /\ code_data' = [code EXCEPT !.mutable = TRUE]
    /\ pc' = "code_copied"
    /\ UNCHANGED <<pyrtiVars, rangesVars, allocVars, headerVars, actorVars, loadVars, reallocVars, dmadata, code, scene_rooms,
                   object_table, scene_table, rooms_by_scene, out>>

\* main(): pyrti.raise_event(EVENT_ROM_VROM_REALLOC_DONE), the pack listeners;
\* struct.pack_into raises TypeError on a buffer that is not writable
RaiseReallocDone ==
    /\ pc = "code_copied"
    /\ IF code.mutable
       THEN /\ code' = [code EXCEPT !.obj = pack_object_table(files, object_table),
                                    !.scene = pack_scene_table(files, scene_table)]
            /\ pc' = "tables_packed"
       ELSE /\ code' = code
            /\ pc' = "aborted"
    /\ UNCHANGED <<pyrtiVars, rangesVars, allocVars, headerVars, actorVars, loadVars, reallocVars, dmadata, code_data, scene_rooms,
                   object_table, scene_table, rooms_by_scene, out>>

\* main(): rom.file_code.data = rom.code_data
ReplaceCodeData ==
    /\ pc = "tables_packed"
    /\ code' = code_data
    /\ pc' = "code_replaced"
    /\ UNCHANGED <<pyrtiVars, rangesVars, allocVars, headerVars, actorVars, loadVars, reallocVars, dmadata, code_data, scene_rooms,
                   object_table, scene_table, rooms_by_scene, out>>

\* main(): rom.pack_room_lists()
PackRoomLists ==
    /\ pc = "code_replaced"
    /\ scene_rooms' = pack_room_lists(files, scene_table, rooms_by_scene, scene_rooms, 1)
    /\ pc' = "rooms_packed"
    /\ UNCHANGED <<pyrtiVars, rangesVars, allocVars, headerVars, actorVars, loadVars, reallocVars, dmadata, code, code_data,
                   object_table, scene_table, rooms_by_scene, out>>

\* main(): rom.write(f)
Write ==
    /\ pc = "rooms_packed"
    /\ out' = write(files)
    /\ pc' = "written"
    /\ UNCHANGED <<pyrtiVars, rangesVars, allocVars, headerVars, actorVars, loadVars, reallocVars, dmadata, code, code_data,
                   scene_rooms, object_table, scene_table, rooms_by_scene>>

Next ==
    \/ LoadFiles
    \/ RaiseDmaLoadDone
    \/ ParseSceneHeaders
    \/ ReallocMoveableVrom
    \/ ReallocMoveableRom
    \/ PackDmaTable
    \/ CopyCodeData
    \/ RaiseReallocDone
    \/ ReplaceCodeData
    \/ PackRoomLists
    \/ Write

Spec == Init /\ [][Next]_vars

----------------------------------------------------------------------------
(* Claims on the pipeline *)

\* the pack steps of the pipeline have all run
Packed == pc \in {"rooms_packed", "written"}

\* record i of the DMA table is the DMA entry of files[i]
DmaTableCurrent == \A i \in 1..Len(files) : dmadata[i] = DmaRecord(files[i])

\* every entry of the encoded object table that refers to a file holds its range
ObjectTableCurrent ==
    \A k \in 1..Len(object_table) :
        object_table[k] # 0 => code.obj[k] = VromRange(files[object_table[k]])

\* every entry of the encoded scene table holds the ranges of its scene and title
SceneTableCurrent ==
    \A k \in 1..Len(scene_table) :
        /\ code.scene[k].scene = VromRange(files[scene_table[k].scene_file])
        /\ scene_table[k].title_file # 0 =>
               code.scene[k].title = VromRange(files[scene_table[k].title_file])

\* every entry of the encoded room lists holds the range of its room
RoomListsCurrent ==
    \A k \in 1..Len(rooms_by_scene) : \A j \in 1..Len(rooms_by_scene[k]) :
        scene_rooms[scene_table[k].scene_file][j] = VromRange(files[rooms_by_scene[k][j]])

DmaAndRoomListsCurrent == Packed => DmaTableCurrent /\ RoomListsCurrent

----------------------------------------------------------------------------
(* PyRTInterface: modules and events *)

\* the tasks of the modules found by load_modules, and a task of no module
Tasks == {"A", "B", "C"}

UnknownTask == "X"

\* the events main() declares
Events == {"EVENT_DMA_LOAD_DONE", "EVENT_ROM_VROM_REALLOC_DONE"}

\* the order in which a register callback adds its listeners
ListenedEvents == <<"EVENT_DMA_LOAD_DONE", "EVENT_ROM_VROM_REALLOC_DONE">>

\* the listeners that raise an error when invoked
raising == {<<"B", "EVENT_ROM_VROM_REALLOC_DONE">>}

\* mutant of register_event: declaring an event again empties its list
register_event_resets(listeners, event) ==
    IF event \in DOMAIN listeners
    THEN [ok |-> FALSE, err |-> "ValueError",
          listeners |-> [listeners EXCEPT ![event] = <<>>]]
    ELSE [ok |-> TRUE, err |-> "",
          listeners |-> [e \in DOMAIN listeners \cup {event} |->
                            IF e = event THEN <<>> ELSE listeners[e]]]

\* PyRTInterface.register_event
register_event(listeners, event) ==
    IF event \in DOMAIN listeners
    THEN [ok |-> FALSE, err |-> "ValueError", listeners |-> listeners]
    ELSE [ok |-> TRUE, err |-> "",
          listeners |-> [e \in DOMAIN listeners \cup {event} |->
                            IF e = event THEN <<>> ELSE listeners[e]]]

\* PyRTInterface.add_event_listener
add_event_listener(listeners, event, callback) ==
    IF event \notin DOMAIN listeners
    THEN [ok |-> FALSE, err |-> "ValueError", listeners |-> listeners]
    ELSE [ok |-> TRUE, err |-> "",
          listeners |-> [listeners EXCEPT ![event] = Append(@, callback)]]

\* mutant of InvokeLoop: the error of a listener is swallowed
RECURSIVE InvokeLoop_swallows(_, _)
InvokeLoop_swallows(callbacks, k) ==
    IF k > Len(callbacks)
    THEN [ok |-> TRUE, invoked |-> <<>>]
    ELSE LET rest == InvokeLoop_swallows(callbacks, k + 1)
         IN  [ok |-> rest.ok, invoked |-> <<callbacks[k]>> \o rest.invoked]

\* the loop of raise_event, from the k-th listener on
RECURSIVE InvokeLoop(_, _)
InvokeLoop(callbacks, k) ==
    IF k > Len(callbacks)
    THEN [ok |-> TRUE, invoked |-> <<>>]
    ELSE IF callbacks[k] \in raising
    THEN [ok |-> FALSE, invoked |-> <<callbacks[k]>>]
    ELSE LET rest == InvokeLoop(callbacks, k + 1)
         IN  [ok |-> rest.ok, invoked |-> <<callbacks[k]>> \o rest.invoked]

\* PyRTInterface.raise_event
raise_event(listeners, event) ==
    IF event \notin DOMAIN listeners
    THEN [ok |-> FALSE, err |-> "KeyError", invoked |-> <<>>]
    ELSE LET r == InvokeLoop(listeners[event], 1)
         IN  [ok |-> r.ok, err |-> IF r.ok THEN "" ELSE "Exception", invoked |-> r.invoked]

\* register_pyrt_module of a module: one listener per event, from the k-th on
RECURSIVE register_pyrt_module(_, _, _, _)
register_pyrt_module(listeners, log, task, k) ==
    IF k > Len(ListenedEvents)
    THEN [ok |-> TRUE, listeners |-> listeners, added |-> log]
    ELSE LET r == add_event_listener(listeners, ListenedEvents[k], <<task, ListenedEvents[k]>>)
         IN  IF ~r.ok
             THEN [ok |-> FALSE, listeners |-> listeners, added |-> log]
             ELSE register_pyrt_module(r.listeners,
                                       Append(log, <<ListenedEvents[k], <<task, ListenedEvents[k]>>>>),
                                       task, k + 1)

\* module.pyrt_module_info.task_dependencies of the module of a task
Dependencies(ms, task) ==
    (CHOOSE m \in Elems(ms) : m.task = task).task_dependencies

\* the generator of register_modules: the keys of the dict whose module has no
\* dependency among the keys, in the order of the dict
Registerable(ms, unregistered) ==
    SelectSeq(unregistered,
              LAMBDA task : Dependencies(ms, task) \cap Elems(unregistered) = {})

----------------------------------------------------------------------------
(* SpecPyrti: the interface under any set of modules and any calls *)

\* the dependency sets a module may declare
DependencySets == {{}} \cup {{t} : t \in Tasks \cup {UnknownTask}}

\* the state after load_modules: one module per task, in the order of os.scandir
InitPyrti ==
    /\ IdleRanges
    /\ IdleAlloc
    /\ IdleRom
    /\ IdleMain
    /\ \E order \in Orders(Tasks) : \E deps \in [Tasks -> DependencySets] :
          modules = [k \in 1..Cardinality(Tasks) |->
                        [task |-> order[k], task_dependencies |-> deps[order[k]]]]
    /\ unregistered_modules = <<>>
    /\ registered = <<>>
    /\ event_listeners = <<>>
    /\ added = <<>>
    /\ invoked = <<>>
    /\ api = NoApiCall
    /\ rpc = "loaded"

\* the calls below come from main() or from any code that holds the
\* interface, before register_modules is called or after it returned
Outside == rpc \in {"loaded", "returned"} /\ api.n < MaxApiCalls

RegisterEvent(event) ==
    /\ Outside
    /\ \E r \in {register_event(event_listeners, event)} :
           /\ event_listeners' = r.listeners
           /\ api' = [op |-> "register_event", event |-> event, ok |-> r.ok,
                      err |-> r.err, n |-> api.n + 1]
    /\ invoked' = <<>>
    /\ UNCHANGED <<rangesVars, allocVars, reallocVars, mainVars, headerVars, actorVars, loadVars, modules,
                   unregistered_modules, registered, added, rpc>>

AddEventListener(event, callback) ==
    /\ Outside
    /\ \E r \in {add_event_listener(event_listeners, event, callback)} :
           /\ event_listeners' = r.listeners
           /\ added' = (IF r.ok THEN Append(added, <<event, callback>>) ELSE added)
           /\ api' = [op |-> "add_event_listener", event |-> event, ok |-> r.ok,
                      err |-> r.err, n |-> api.n + 1]
    /\ invoked' = <<>>
    /\ UNCHANGED <<rangesVars, allocVars, reallocVars, mainVars, headerVars, actorVars, loadVars, modules,
                   unregistered_modules, registered, rpc>>

RaiseEvent(event) ==
    /\ Outside
    /\ \E r \in {raise_event(event_listeners, event)} :
           /\ invoked' = r.invoked
           /\ api' = [op |-> "raise_event", event |-> event, ok |-> r.ok,
                      err |-> r.err, n |-> api.n + 1]
    /\ UNCHANGED <<rangesVars, allocVars, reallocVars, mainVars, headerVars, actorVars, loadVars, modules,
                   unregistered_modules, registered, event_listeners, added, rpc>>

\* register_modules: the dict of the modules by task
BeginRegisterModules ==
    /\ rpc = "loaded"
    /\ unregistered_modules' = [k \in 1..Len(modules) |-> modules[k].task]
    /\ rpc' = "registering"
    /\ UNCHANGED <<rangesVars, allocVars, reallocVars, mainVars, headerVars, actorVars, loadVars, modules, registered,
                   event_listeners, added, invoked, api>>

\* register_modules: an iteration that finds a module to register; an error
\* of its register callback ends register_modules
RegisterModule ==
    /\ rpc = "registering"
    /\ Registerable(modules, unregistered_modules) # <<>>
    /\ LET module_task == Head(Registerable(modules, unregistered_modules))
       IN  \E r \in {register_pyrt_module(event_listeners, added, module_task, 1)} :
              /\ registered' = Append(registered, module_task)
              /\ event_listeners' = r.listeners
              /\ added' = r.added
              /\ unregistered_modules' =
                     (IF r.ok
                      THEN SelectSeq(unregistered_modules, LAMBDA t : t # module_task)
                      ELSE unregistered_modules)
              /\ rpc' = (IF r.ok THEN "registering" ELSE "aborted")
    /\ UNCHANGED <<rangesVars, allocVars, reallocVars, mainVars, headerVars, actorVars, loadVars, modules, invoked, api>>

\* register_modules: an iteration that finds no module to register, the break
SkipRegistration ==
    /\ rpc = "registering"
    /\ unregistered_modules # <<>>
    /\ Registerable(modules, unregistered_modules) = <<>>
    /\ rpc' = "returned"
    /\ UNCHANGED <<rangesVars, allocVars, reallocVars, mainVars, headerVars, actorVars, loadVars, modules,
                   unregistered_modules, registered, event_listeners, added, invoked, api>>

\* register_modules: the dict is empty, the loop ends
EndRegisterModules ==
    /\ rpc = "registering"
    /\ unregistered_modules = <<>>
    /\ rpc' = "returned"
    /\ UNCHANGED <<rangesVars, allocVars, reallocVars, mainVars, headerVars, actorVars, loadVars, modules,
                   unregistered_modules, registered, event_listeners, added, invoked, api>>

NextPyrti ==
    \/ \E event \in Events : RegisterEvent(event)
    \/ \E event \in Events : AddEventListener(event, <<"late", event>>)
    \/ \E event \in Events : RaiseEvent(event)
    \/ BeginRegisterModules
    \/ RegisterModule
    \/ SkipRegistration
    \/ EndRegisterModules

SpecPyrti == InitPyrti /\ [][NextPyrti]_vars

----------------------------------------------------------------------------
(* Claims on the interface *)

\* the tasks that a loaded module provides
LoadedTasks == {modules[k].task : k \in 1..Len(modules)}

\* the register callback of every task of D was called before the k-th call
CalledBefore(D, k) == \A d \in D : \E j \in 1..(k - 1) : registered[j] = d

\* C14: register_modules calls the register callback of a task only after the
\* register callbacks of all the tasks named in its dependency set were called.
C14_DependenciesFirst ==
    \A k \in 1..Len(registered) :
        CalledBefore(Dependencies(modules, registered[k]), k)

\* the same, for the dependencies that a loaded module provides
LoadedDependenciesFirst ==
    \A k \in 1..Len(registered) :
        CalledBefore(Dependencies(modules, registered[k]) \cap LoadedTasks, k)

\* C15: register_modules does not return normally with tasks left
\* unregistered: unsatisfiable or cyclic dependencies end it in an error.
C15_NoPartialRegistration ==
    rpc = "returned" => unregistered_modules = <<>>

\* C16: the register callback of a task whose dependency set names a task
\* that no loaded module provides is never called.
C16_UnknownDependencyFatal ==
    \A k \in 1..Len(registered) :
        Dependencies(modules, registered[k]) \subseteq LoadedTasks

\* the listeners of an event, in the order add_event_listener returned
AddedTo(event) ==
    LET calls == SelectSeq(added, LAMBDA c : c[1] = event)
    IN  [k \in 1..Len(calls) |-> calls[k][2]]

\* the listeners raise_event has to invoke: all of them, or those up to the
\* first that raises
UpToFirstRaising(listeners) ==
    LET failing == {k \in 1..Len(listeners) : listeners[k] \in raising}
    IN  IF failing = {}
        THEN listeners
        ELSE SubSeq(listeners, 1, CHOOSE k \in failing : \A j \in failing : k <= j)

\* C17: raise_event invokes every listener of the event once, in the order
\* the listeners were added; when a listener raises, no later listener is
\* invoked and raise_event fails.
C17_ListenersInOrder ==
    [][(/\ api'.n = api.n + 1
        /\ api'.op = "raise_event"
        /\ api'.event \in DOMAIN event_listeners)
       => (/\ invoked' = UpToFirstRaising(AddedTo(api'.event))
           /\ api'.ok = (invoked' = AddedTo(api'.event) /\ \A c \in Elems(invoked') : c \notin raising))]_vars

\* raise_event stopped at a raising listener that has listeners before and after it
C17_Witness ==
    /\ api.op = "raise_event"
    /\ ~api.ok
    /\ Len(invoked) >= 2
    /\ Len(event_listeners[api.event]) > Len(invoked)

\* C18: add_event_listener succeeds only while a register callback is
\* running: a call made outside of one is rejected and adds no listener.
C18_GateClosed ==
    [][(api'.n = api.n + 1 /\ api'.op = "add_event_listener")
       => (~api'.ok /\ event_listeners' = event_listeners)]_vars

\* C19: add_event_listener and raise_event on an event that was not declared
\* fail, invoke no listener and leave every listener list unchanged;
\* declaring an event again fails and keeps its listeners.
C19_UndeclaredRejected ==
    [][api'.n = api.n + 1 =>
        /\ (api'.op \in {"add_event_listener", "raise_event"}
              /\ api'.event \notin DOMAIN event_listeners)
           => (~api'.ok /\ invoked' = <<>> /\ event_listeners' = event_listeners)
        /\ (api'.op = "register_event" /\ api'.event \in DOMAIN event_listeners)
           => (~api'.ok /\ invoked' = <<>> /\ event_listeners' = event_listeners)]_vars

\* an event that has listeners was declared again
C19_Witness ==
    /\ api.op = "register_event"
    /\ ~api.ok
    /\ event_listeners[api.event] # <<>>

----------------------------------------------------------------------------
(* SpecCodec: decoding then encoding the tables of an image as it is *)

\* the pack listeners, run on the decoded tables of an image whose files did
\* not move; struct.pack_into raises TypeError on a buffer that is not writable
RepackTables ==
    /\ pc = "headers"
    /\ IF code.mutable
       THEN /\ code' = [code EXCEPT !.obj = pack_object_table(files, object_table),
                                    !.scene = pack_scene_table(files, scene_table)]
            /\ pc' = "repacked"
       ELSE /\ code' = code
            /\ pc' = "aborted"
    /\ UNCHANGED <<pyrtiVars, rangesVars, allocVars, headerVars, actorVars, loadVars, reallocVars, dmadata, code_data,
                   scene_rooms, object_table, scene_table, rooms_by_scene, out>>

\* pack_dma_table, run on the files of an image as parse_dma_table and main()
\* built them
RepackDmaTable ==
    /\ pc = "loaded"
    /\ dmadata' = pack_dma_table(files, dmadata)
    /\ pc' = "dma_repacked"
    /\ UNCHANGED <<pyrtiVars, rangesVars, allocVars, headerVars, actorVars, loadVars, reallocVars, code, code_data, scene_rooms,
                   object_table, scene_table, rooms_by_scene, out>>

NextCodec ==
    \/ Next
    \/ RepackTables
    \/ RepackDmaTable

SpecCodec == Init /\ [][NextCodec]_vars

\* C20: parse_object_table followed by pack_object_table, with no mutation
\* and no reallocation in between, leaves the length of the object table and
\* every record of it in the code buffer as they were parsed.
C20_ObjectTableRoundTrip ==
    [][pc' = "repacked" => code'.obj = code.obj]_vars

\* the same, for the records that are not "NULL" entries (vrom_start =
\* vrom_end, not zero)
ObjectTableRoundTripNoNull ==
    [][pc' = "repacked" =>
          /\ Len(code'.obj) = Len(code.obj)
          /\ \A k \in 1..Len(code.obj) :
                (code.obj[k][1] # code.obj[k][2] \/ code.obj[k][1] = 0)
                    => code'.obj[k] = code.obj[k]]_vars

\* the four byte fields of a scene table record
UnkFields(record) == <<record.unk_10, record.config, record.unk_12, record.unk_13>>

\* C21: parse_scene_table followed by pack_scene_table, with no mutation and no
\* reallocation in between, leaves every record of the scene table as it was
\* parsed; and whenever pack_scene_table has run, after a reallocation or not,
\* the fields unk_10, config, unk_12 and unk_13 of every record are the ones
\* that were parsed.
C21_SceneTableRoundTrip ==
    [][/\ pc' = "repacked" => code'.scene = code.scene
       /\ pc' \in {"repacked", "tables_packed"} =>
              /\ Len(code'.scene) = Len(code.scene)
              /\ \A k \in 1..Len(code.scene) :
                     UnkFields(code'.scene[k]) = UnkFields(code.scene[k])]_vars

\* a titled scene whose byte fields are not zero was decoded and encoded
C21_Witness ==
    /\ pc = "repacked"
    /\ \E k \in 1..Len(scene_table) :
           /\ scene_table[k].title_file # 0
           /\ code.scene[k].unk_12 # code.scene[k].unk_13

\* C22: parse_dma_table followed by pack_dma_table, with no reallocation in
\* between, leaves the DMA table as it was: as long, with the same record at
\* every position.
C22_DmaTableRoundTrip ==
    [][pc' = "dma_repacked" => dmadata' = dmadata]_vars

\* no record that is all zero comes before one that is not
ZeroRecordsLast(records) ==
    \A j, k \in 1..Len(records) :
        (j < k /\ records[j] = ZeroRecord) => records[k] = ZeroRecord

\* the same, for the tables whose all-zero records are all at the end
DmaTableRoundTripZerosLast ==
    [][(pc' = "dma_repacked" /\ ZeroRecordsLast(dmadata)) => dmadata' = dmadata]_vars

\* the files whose [vrom_start, vrom_end) contains the address
Containing(v) == {i \in 1..Len(files) : files[i].vrom_start <= v /\ v < files[i].vrom_end}

\* the ranges the table decoders look up: the object table records that are
\* neither unset nor "NULL", the scene field of every scene table record and
\* the title field of every one that is not (0, 0)
LookedUp ==
    {code.obj[k] : k \in {j \in 1..Len(code.obj) : code.obj[j][1] # code.obj[j][2]}}
        \cup {code.scene[k].scene : k \in 1..Len(code.scene)}
        \cup {code.scene[k].title : k \in {j \in 1..Len(code.scene) :
                                               code.scene[j].title # <<0, 0>>}}

\* exactly one file contains the start of the range, and that file has the range
ExactlyOne(r) ==
    /\ r[1] <= r[2]
    /\ \E i \in 1..Len(files) : Containing(r[1]) = {i} /\ VromRange(files[i]) = r

\* C23: the table decoders run to their end exactly when every range they look
\* up starts in one file and one only, whose vrom_start and vrom_end are the
\* two decoded fields; the file they then hold for the range is that file. A
\* range that starts in no file, in several files, or in a file of another
\* range aborts the run.
C23_LookupExactlyOne ==
    [][(pc = "loaded" /\ pc' \in {"parsed", "aborted"}) =>
          /\ pc' = "parsed" <=> \A r \in LookedUp : ExactlyOne(r)
          /\ pc' = "parsed" =>
                /\ \A k \in 1..Len(code.obj) :
                       code.obj[k][1] # code.obj[k][2] =>
                           Containing(code.obj[k][1]) = {object_table'[k]}
                /\ \A k \in 1..Len(code.scene) :
                       /\ Containing(code.scene[k].scene[1]) = {scene_table'[k].scene_file}
                       /\ code.scene[k].title # <<0, 0>> =>
                              Containing(code.scene[k].title[1]) = {scene_table'[k].title_file}
          /\ pc' = "aborted" => (object_table' = object_table /\ scene_table' = scene_table)]_vars

\* the decoders aborted on a range that starts in two files
C23_Witness ==
    /\ pc = "aborted"
    /\ call.n = 0
    /\ Len(files) > 0
    /\ \E r \in LookedUp : Cardinality(Containing(r[1])) > 1

\* the decoders aborted on a range that starts in no file
AbortedOnNoFile ==
    /\ pc = "aborted"
    /\ call.n = 0
    /\ Len(files) > 0
    /\ \A r \in LookedUp : Cardinality(Containing(r[1])) <= 1
    /\ \E r \in LookedUp : Containing(r[1]) = {}

\* the decoders aborted on a range that is not the range of the file it starts in
AbortedOnInexact ==
    /\ pc = "aborted"
    /\ call.n = 0
    /\ Len(files) > 0
    /\ \A r \in LookedUp : Cardinality(Containing(r[1])) = 1
    /\ \E r \in LookedUp : ~ExactlyOne(r)

\* the addresses of the output image file i is copied to
RomAddresses(i) == files[i].rom_start .. (files[i].rom_start + files[i].len - 1)

Encoded == <<dmadata, code, scene_rooms, out>>

\* C25: a step of the pipeline that encodes a table or writes the image is
\* taken only after realloc_vrom and then realloc_rom have both returned; a
\* reallocation that fails aborts the run, with no table encoded and no image
\* written, then or later.
C25_EncodeAfterRealloc ==
    [][/\ (Encoded' # Encoded
             \/ pc' \in {"dma_packed", "tables_packed", "rooms_packed", "written"})
          => (call.n = 2 /\ call.op = "realloc_rom" /\ call.ok /\ call' = call)
       /\ (call' # call /\ call'.op = "realloc_rom")
          => (call.n = 1 /\ call.op = "realloc_vrom" /\ call.ok)
       /\ (call' # call /\ ~call'.ok)
          => (pc' = "aborted" /\ Encoded' = Encoded /\ out' = <<>>)
       /\ ~call.ok => Encoded' = Encoded]_vars

\* a reallocation found no free range for a file and the run aborted
C25_Witness ==
    /\ pc = "aborted"
    /\ ~call.ok
    /\ call.err = "IndexError"
    /\ out = <<>>

\* C26: a reallocation gives ranges to the movable files from the longest to
\* the shortest, and among files of one length from the greatest name to the
\* smallest; when it succeeds, every movable file was given a range, once.
C26_LongestFirst ==
    /\ \A j, k \in 1..Len(call.assigned) :
           j < k =>
               LET f == files[call.assigned[j]]
                   g == files[call.assigned[k]]
               IN  f.len > g.len \/ (f.len = g.len /\ f.name >= g.name)
    /\ (call.n > 0 /\ call.ok) =>
           /\ Elems(call.assigned) = call.moveable
           /\ Len(call.assigned) = Cardinality(call.moveable)

\* a reallocation gave ranges to files of different lengths and to two files
\* of one length
C26_Witness ==
    /\ call.n > 0
    /\ call.ok
    /\ \E j, k \in 1..Len(call.assigned) :
           files[call.assigned[j]].len > files[call.assigned[k]].len
    /\ \E j, k \in 1..Len(call.assigned) :
           /\ files[call.assigned[j]].len = files[call.assigned[k]].len
           /\ files[call.assigned[j]].name > files[call.assigned[k]].name

\* the files the decoders resolved from the object table, from the scene
\* fields of the scene table and from the room lists
ResolvedButTitles ==
    {object_table[k] : k \in {j \in 1..Len(object_table) : object_table[j] # 0}}
        \cup {scene_table[k].scene_file : k \in 1..Len(scene_table)}
        \cup UNION {Elems(rooms_by_scene[k]) : k \in 1..Len(rooms_by_scene)}

\* the files the decoders resolved from the title fields of the scene table
ResolvedTitles ==
    {scene_table[k].title_file : k \in {j \in 1..Len(scene_table) :
                                           scene_table[j].title_file # 0}}

\* C27: the movable set of the VROM reallocation is the set of the files the
\* table decoders resolved from an address field: object table entries, scene
\* files, scene title files and room list entries; every other file is fixed.
C27_ResolvedAreMovable ==
    call.op = "realloc_vrom" => call.moveable = ResolvedButTitles \cup ResolvedTitles

\* the same, the scene title files left out
ResolvedButTitlesAreMovable ==
    call.op = "realloc_vrom" => call.moveable = ResolvedButTitles

\* the null fields of the tables of code, the fields a decoder is to take as
\* unset: both values 0, or start = end
NullField(r) == r[1] = r[2]

\* C28: the decoders take a field whose two values are both 0, or whose start
\* equals its end, as unset without looking a file up: the decoded entry holds
\* no file for it, and the run does not abort on it when every other field is
\* the range of one file.
C28_NullFieldsNotResolved ==
    [][(/\ pc = "loaded"
        /\ pc' \in {"parsed", "aborted"}
        /\ \A k \in 1..Len(code.obj) : NullField(code.obj[k]) \/ ExactlyOne(code.obj[k])
        /\ \A k \in 1..Len(code.scene) :
               /\ NullField(code.scene[k].scene) \/ ExactlyOne(code.scene[k].scene)
               /\ NullField(code.scene[k].title) \/ ExactlyOne(code.scene[k].title))
       => /\ pc' = "parsed"
          /\ \A k \in 1..Len(code.obj) : NullField(code.obj[k]) => object_table'[k] = 0
          /\ \A k \in 1..Len(code.scene) :
                 NullField(code.scene[k].title) => scene_table'[k].title_file = 0]_vars

\* the same, where the title field of a scene counts as unset only when both
\* its values are 0
NullObjectFieldsNotResolved ==
    [][(/\ pc = "loaded"
        /\ pc' \in {"parsed", "aborted"}
        /\ \A k \in 1..Len(code.obj) : NullField(code.obj[k]) \/ ExactlyOne(code.obj[k])
        /\ \A k \in 1..Len(code.scene) :
               /\ ExactlyOne(code.scene[k].scene)
               /\ code.scene[k].title = <<0, 0>> \/ ExactlyOne(code.scene[k].title))
       => /\ pc' = "parsed"
          /\ \A k \in 1..Len(code.obj) : NullField(code.obj[k]) => object_table'[k] = 0
          /\ \A k \in 1..Len(code.scene) :
                 code.scene[k].title = <<0, 0>> => scene_table'[k].title_file = 0]_vars

----------------------------------------------------------------------------
(* Scene headers: the search for alternate headers *)

\* u32_struct.size
u32_size == 4

\* scene_header_command_struct.size
command_size == 8

\* len(scene_data); scene_data is held as big-endian 32-bit words, hi the top
\* byte of a word and lo its low 24 bits
Size(data) == u32_size * Len(data)

\* u32_struct.unpack_from(scene_data, offset), offset a multiple of 4
Word(data, offset) == data[(offset \div u32_size) + 1]

\* scene_header_command_struct.unpack_from(scene_data, offset): code is the
\* first byte, data2 the second word
CommandCode(data, offset) == Word(data, offset).hi

CommandData2(data, offset) == Word(data, offset + u32_size)

\* the three tests of the loop over the commands of a candidate header; data2
\* is the variable of the enclosing loop, the data2 of the 0x18 command
CommandPasses(data, data2, alt_code) ==
    /\ ~(alt_code >= 26)
    /\ alt_code \notin {1, 10, 11, 24}
    /\ alt_code \in {0, 3, 4, 6, 14, 15, 19} =>
           (data2.hi = 2 /\ ~(data2.lo >= Size(data)))

\* parse_scene_headers: the loop over the commands of a candidate header;
\* alt_offset is not advanced, so a command that passes the tests and is not
\* 0x14 is read again for ever
CheckHeaderParse(data, data2, alt_offset) ==
    IF ~(alt_offset + command_size <= Size(data))
    THEN "reject"
    ELSE IF ~CommandPasses(data, data2, CommandCode(data, alt_offset))
    THEN "reject"
    ELSE IF CommandCode(data, alt_offset) = 20
    THEN "accept"
    ELSE "hang"

\* pack_room_lists: the same loop, alt_offset advanced after each command
RECURSIVE CheckHeaderPack(_, _, _)
CheckHeaderPack(data, data2, alt_offset) ==
    IF ~(alt_offset + command_size <= Size(data))
    THEN "reject"
    ELSE IF ~CommandPasses(data, data2, CommandCode(data, alt_offset))
    THEN "reject"
    ELSE IF CommandCode(data, alt_offset) = 20
    THEN "accept"
    ELSE CheckHeaderPack(data, data2, alt_offset + command_size)

RECURSIVE AlternateHeaderList_skips(_, _, _, _)
AlternateHeaderList_skips(data, data2, list_offset, packing) ==
    IF ~(list_offset + u32_size <= Size(data))
    THEN [outcome |-> "done", offsets |-> <<>>]
    ELSE LET entry == Word(data, list_offset)
             rest == AlternateHeaderList_skips(data, data2, list_offset + u32_size, packing)
             check == IF packing THEN CheckHeaderPack(data, data2, entry.lo)
                      ELSE CheckHeaderParse(data, data2, entry.lo)
         IN  IF entry.hi = 0 /\ entry.lo = 0
             THEN rest
             ELSE IF entry.hi # 2
             THEN [outcome |-> "done", offsets |-> <<>>]
             ELSE IF check = "hang"
             THEN [outcome |-> "hang", offsets |-> <<>>]
             ELSE IF check = "accept"
             THEN [outcome |-> rest.outcome, offsets |-> <<entry.lo>> \o rest.offsets]
             ELSE rest

\* the loop over the words of the alternate header list, from list_offset to
\* the end of scene_data: the offsets appended to header_offsets
RECURSIVE AlternateHeaderList(_, _, _, _)
AlternateHeaderList(data, data2, list_offset, packing) ==
    IF ~(list_offset + u32_size <= Size(data))
    THEN [outcome |-> "done", offsets |-> <<>>]
    ELSE LET entry == Word(data, list_offset)
             rest == AlternateHeaderList(data, data2, list_offset + u32_size, packing)
             check == IF packing THEN CheckHeaderPack(data, data2, entry.lo)
                      ELSE CheckHeaderParse(data, data2, entry.lo)
         IN  IF entry.hi = 0 /\ entry.lo = 0
             THEN rest
             ELSE IF entry.hi # 2
             THEN [outcome |-> "done", offsets |-> <<>>]
             ELSE IF check = "hang"
             THEN [outcome |-> "hang", offsets |-> <<>>]
             ELSE IF check = "accept"
             THEN [outcome |-> rest.outcome, offsets |-> <<entry.lo>> \o rest.offsets]
             ELSE [outcome |-> "done", offsets |-> <<>>]

\* alternate_headers_list_offset: data2 in parse_scene_headers, data2 &
\* 0xFFFFFF in pack_room_lists
ListOffset(data2, packing) ==
    IF packing THEN data2.lo ELSE data2.hi * 16777216 + data2.lo

\* the loop over the commands of header 0, from offset on; reading past the
\* end of scene_data raises struct.error
RECURSIVE FindAlternateHeaders(_, _, _)
FindAlternateHeaders(data, offset, packing) ==
    IF ~(offset + command_size <= Size(data))
    THEN [outcome |-> "error", offsets |-> <<>>]
    ELSE LET code_ == CommandCode(data, offset)
             data2 == CommandData2(data, offset)
             here == IF code_ = 24
                     THEN AlternateHeaderList(data, data2, ListOffset(data2, packing), packing)
                     ELSE [outcome |-> "done", offsets |-> <<>>]
             rest == IF code_ = 20
                     THEN [outcome |-> "done", offsets |-> <<>>]
                     ELSE FindAlternateHeaders(data, offset + command_size, packing)
         IN  IF here.outcome # "done"
             THEN here
             ELSE [outcome |-> rest.outcome, offsets |-> here.offsets \o rest.offsets]

\* header_offsets = [0] and the search, as far as it got
HeaderOffsets(data, packing) ==
    LET found == FindAlternateHeaders(data, 0, packing)
    IN  [outcome |-> found.outcome,
         offsets |-> IF found.outcome = "done" THEN <<0>> \o found.offsets ELSE <<>>]

----------------------------------------------------------------------------
(* SpecHeaders: the search on one scene file *)

\* a command with no data
Command(code_, data2) == <<[hi |-> code_, lo |-> 0], data2>>

ZeroWord == [hi |-> 0, lo |-> 0]

\* a scene file: header 0 (one command, then 0x14), the alternate header list,
\* a candidate header of two commands and one of one command
InitHeaders ==
    /\ IdleRanges
    /\ IdlePyrti
    /\ IdleAlloc
    /\ IdleRom
    /\ IdleActor
    /\ IdleLoad
    /\ pc = "scene"
    /\ dmadata = <<>>
    /\ code = [obj |-> <<>>, scene |-> <<>>, mutable |-> FALSE]
    /\ code_data = [obj |-> <<>>, scene |-> <<>>, mutable |-> TRUE]
    /\ scene_rooms = <<>>
    /\ object_table = <<>>
    /\ scene_table = <<>>
    /\ rooms_by_scene = <<>>
    /\ out = <<>>
    /\ header_offsets = NoWalk
    /\ LET list == 2 * command_size
           first == list + u32_size * MaxAlternates
           second == first + 2 * command_size
           end == second + command_size
           entries == {ZeroWord, [hi |-> 2, lo |-> first], [hi |-> 2, lo |-> second],
                       [hi |-> 3, lo |-> first], [hi |-> 2, lo |-> end]}
       IN  \E c0 \in {24, 21} : \E seg \in {0, 2} :
           \E alternates \in [1..MaxAlternates -> entries] :
           \E c1 \in {<<20, 0>>, <<4, 2>>, <<4, 3>>, <<26, 0>>, <<1, 0>>, <<5, 0>>} :
           \E c2, c3 \in {20, 5} :
               scene_data = Command(c0, [hi |-> seg, lo |-> list]) \o Command(20, ZeroWord)
                                \o alternates
                                \o Command(c1[1], [hi |-> c1[2], lo |-> second])
                                \o Command(c2, ZeroWord)
                                \o Command(c3, ZeroWord)

\* parse_scene_headers, up to "find room list from all headers"
FindHeadersParsing ==
    /\ pc = "scene"
    /\ \E r \in {HeaderOffsets(scene_data, FALSE)} :
           /\ header_offsets' = r
           /\ pc' = (IF r.outcome = "done" THEN "parse_walked"
                     ELSE IF r.outcome = "hang" THEN "hung" ELSE "aborted")
    /\ UNCHANGED <<pyrtiVars, rangesVars, allocVars, actorVars, loadVars, reallocVars, dmadata, code, code_data,
                   scene_rooms, object_table, scene_table, rooms_by_scene, out, scene_data>>

\* pack_room_lists, up to "find room list from all headers"
FindHeadersPacking ==
    /\ pc = "scene"
    /\ \E r \in {HeaderOffsets(scene_data, TRUE)} :
           /\ header_offsets' = r
           /\ pc' = (IF r.outcome = "done" THEN "pack_walked"
                     ELSE IF r.outcome = "hang" THEN "hung" ELSE "aborted")
    /\ UNCHANGED <<pyrtiVars, rangesVars, allocVars, actorVars, loadVars, reallocVars, dmadata, code, code_data,
                   scene_rooms, object_table, scene_table, rooms_by_scene, out, scene_data>>

NextHeaders ==
    \/ FindHeadersParsing
    \/ FindHeadersPacking

SpecHeaders == InitHeaders /\ [][NextHeaders]_vars

\* the data2 a command is tested on: its own, or the data2 of the first
\* command of header 0, the 0x18 command
TestedData2(offset, own) ==
    IF own THEN scene_data[(offset \div 4) + 2] ELSE scene_data[2]

\* from the offset on, commands that are in scene_data, are not of a code
\* >= 0x1A or in {0x01, 0x0A, 0x0B, 0x18} and, when of a code in {0x00, 0x03,
\* 0x04, 0x06, 0x0E, 0x0F, 0x13}, are tested on a data2 in segment 0x02 and
\* below the length of scene_data, up to a command 0x14
RECURSIVE WalksToTerminator(_, _)
WalksToTerminator(offset, own) ==
    /\ offset + 8 <= 4 * Len(scene_data)
    /\ LET alt_code == scene_data[(offset \div 4) + 1].hi
       IN  \/ alt_code = 20
           \/ /\ alt_code < 26
              /\ alt_code \notin {1, 10, 11, 24}
              /\ alt_code \in {0, 3, 4, 6, 14, 15, 19} =>
                     /\ TestedData2(offset, own).hi = 2
                     /\ TestedData2(offset, own).lo < 4 * Len(scene_data)
              /\ WalksToTerminator(offset + 8, own)

\* C29: an alternate header is accepted only if the commands from its offset
\* on reach a 0x14 command inside the scene data, none of them being of a code
\* >= 0x1A, of a code in {0x01, 0x0A, 0x0B, 0x18}, or of a code in {0x00,
\* 0x03, 0x04, 0x06, 0x0E, 0x0F, 0x13} with its own data2 outside segment 0x02
\* or not below the length of the scene data.
C29_AcceptedWalkToTerminator ==
    header_offsets.outcome = "done" =>
        \A k \in 2..Len(header_offsets.offsets) :
            WalksToTerminator(header_offsets.offsets[k], TRUE)

\* the same, the test on data2 made on the data2 of the 0x18 command
AcceptedWalkToTerminatorListData2 ==
    header_offsets.outcome = "done" =>
        \A k \in 2..Len(header_offsets.offsets) :
            WalksToTerminator(header_offsets.offsets[k], FALSE)

\* the words of the alternate header list that are not zero: the words from
\* the offset the 0x18 command of header 0 gives to the end of the scene data
NonZeroEntries ==
    IF scene_data[1].hi = 24
    THEN SelectSeq(SubSeq(scene_data, (scene_data[2].lo \div 4) + 1, Len(scene_data)),
                   LAMBDA w : w # [hi |-> 0, lo |-> 0])
    ELSE <<>>

\* C30: the headers the search accepts are header 0 followed by the offsets
\* of the first entries of the alternate header list that are not zero: once
\* a candidate is rejected, no later entry of the list is accepted.
C30_AcceptedIsPrefix ==
    header_offsets.outcome = "done" =>
        \E m \in 0..Len(NonZeroEntries) :
            header_offsets.offsets = <<0>> \o [k \in 1..m |-> NonZeroEntries[k].lo]

\* the first candidate was rejected and the second, which walks to a 0x14
\* command, was not accepted
C30_Witness ==
    /\ pc = "pack_walked"
    /\ header_offsets.offsets = <<0>>
    /\ Len(NonZeroEntries) >= 2
    /\ NonZeroEntries[1].hi = 2
    /\ ~WalksToTerminator(NonZeroEntries[1].lo, FALSE)
    /\ NonZeroEntries[2].hi = 2
    /\ WalksToTerminator(NonZeroEntries[2].lo, FALSE)

----------------------------------------------------------------------------
(* The actor overlay table module (actor_overlay_table.py). The code file's *)
(* allocator, pyrt.free_strings and the main() that raises the events of   *)
(* this module are modelled from the specification, sections 2, 3 and 4.2. *)

\* the length a name may reach before the scan for its end gives up
NameGuard == 100

\* the events the modules listen to, in the order the run raises them
ActorEvents == <<"EVENT_PARSE_ROM", "EVENT_DUMP_FILES", "EVENT_LOAD_FILES",
                 "EVENT_PACK_ROM_BEFORE_FILE_ALLOC", "EVENT_PACK_ROM_AFTER_FILE_ALLOC">>

\* data[start:end] of a bytes object, offsets from 0
Slice(data, start, end) ==
    IF start >= end THEN <<>> ELSE SubSeq(data, start + 1, IF end > Len(data) THEN Len(data) ELSE end)

\* data[start:end] = bytes on a bytearray: the slice is clamped to the data
SliceAssign(data, start, end, bytes) ==
    LET s == IF start > Len(data) THEN Len(data) ELSE start
        e == IF end > Len(data) THEN Len(data) ELSE IF end < s THEN s ELSE end
    IN  SubSeq(data, 1, s) \o bytes \o SubSeq(data, e + 1, Len(data))

\* the entry of the decoded table that is None
NoActor == [actor_init_vram_start |-> 0, name |-> <<>>]

\* the while loop that looks for the zero byte ending the name at
\* name_code_offset_start
RECURSIVE NameEnd(_, _, _)
NameEnd(data, start, end) ==
    IF end >= Len(data)
    THEN [ok |-> FALSE, err |-> "IndexError", end |-> end]
    ELSE IF data[end + 1] = 0
    THEN [ok |-> TRUE, err |-> "", end |-> end]
    ELSE IF end + 1 - start >= NameGuard
    THEN [ok |-> FALSE, err |-> "AssertionError", end |-> end + 1]
    ELSE NameEnd(data, start, end + 1)

\* mutant of ParseActorLoop: the range of a name leaves its zero byte out
RECURSIVE ParseActorLoop_noTrailing(_, _, _, _, _)
ParseActorLoop_noTrailing(data, records, k, table, name_ranges) ==
    IF k > Len(records)
    THEN [ok |-> TRUE, err |-> "", table |-> table, name_ranges |-> name_ranges]
    ELSE LET r == records[k]
             start == r.name_vram_start - version_info.code_vram_start
         IN  IF r.actor_init_vram_start = 0
             THEN ParseActorLoop_noTrailing(data, records, k + 1, Append(table, NoActor), name_ranges)
             ELSE IF ~(version_info.code_vram_start <= r.name_vram_start) \/ ~(start < Len(data))
             THEN [ok |-> FALSE, err |-> "AssertionError", table |-> table,
                   name_ranges |-> name_ranges]
             ELSE LET e == NameEnd(data, start, start)
                  IN  IF ~e.ok
                      THEN [ok |-> FALSE, err |-> e.err, table |-> table,
                            name_ranges |-> name_ranges]
                      ELSE ParseActorLoop_noTrailing(data, records, k + 1,
                               Append(table, [actor_init_vram_start |-> r.actor_init_vram_start,
                                              name |-> Slice(data, start, e.end)]),
                               Append(name_ranges, <<start, e.end>>))

\* the loop of parse_actor_overlay_table over the records, from the k-th on:
\* the decoded table and the ranges of the names read
RECURSIVE ParseActorLoop(_, _, _, _, _)
ParseActorLoop(data, records, k, table, name_ranges) ==
    IF k > Len(records)
    THEN [ok |-> TRUE, err |-> "", table |-> table, name_ranges |-> name_ranges]
    ELSE LET r == records[k]
             start == r.name_vram_start - version_info.code_vram_start
         IN  IF r.actor_init_vram_start = 0
             THEN ParseActorLoop(data, records, k + 1, Append(table, NoActor), name_ranges)
             ELSE IF ~(version_info.code_vram_start <= r.name_vram_start) \/ ~(start < Len(data))
             THEN [ok |-> FALSE, err |-> "AssertionError", table |-> table,
                   name_ranges |-> name_ranges]
             ELSE LET e == NameEnd(data, start, start)
                  IN  IF ~e.ok
                      THEN [ok |-> FALSE, err |-> e.err, table |-> table,
                            name_ranges |-> name_ranges]
                      ELSE ParseActorLoop(data, records, k + 1,
                               Append(table, [actor_init_vram_start |-> r.actor_init_vram_start,
                                              name |-> Slice(data, start, e.end)]),
                               \* end + 1 to count the trailing '\0'
                               Append(name_ranges, <<start, e.end + 1>>))

\* list.sort by the start of the range
RECURSIVE InsertByStart(_, _)
InsertByStart(sorted, x) ==
    IF sorted = <<>> THEN <<x>>
    ELSE IF x[1] < sorted[1][1] THEN <<x>> \o sorted
    ELSE <<sorted[1]>> \o InsertByStart(Tail(sorted), x)

RECURSIVE SortByStart(_)
SortByStart(ranges) ==
    IF ranges = <<>> THEN <<>>
    ELSE InsertByStart(SortByStart(SubSeq(ranges, 1, Len(ranges) - 1)), ranges[Len(ranges)])

\* the bytes from..to-1 are zero padding: at most 3 of them, all zero
ZeroPadding(data, from, to) ==
    /\ to - from <= 3
    /\ \A b \in from..(to - 1) : data[b + 1] = 0

\* the strands of the sorted ranges from the k-th on, the strand in the
\* making being [strand_start, strand_end)
RECURSIVE Strands(_, _, _, _, _)
Strands(data, sorted, k, strand_start, strand_end) ==
    IF k > Len(sorted)
    THEN <<<<strand_start, strand_end>>>>
    ELSE IF sorted[k][1] <= strand_end \/ ZeroPadding(data, strand_end, sorted[k][1])
    THEN Strands(data, sorted, k + 1, strand_start,
                 IF sorted[k][2] > strand_end THEN sorted[k][2] ELSE strand_end)
    ELSE <<<<strand_start, strand_end>>>>
         \o Strands(data, sorted, k + 1, sorted[k][1], sorted[k][2])

RECURSIVE FreeEach(_, _, _)
FreeEach(ranges, strands, k) ==
    IF k > Len(strands) THEN ranges
    ELSE FreeEach(Allocator_free(ranges, strands[k][1], strands[k][2]), strands, k + 1)

\* pyrt.free_strings(allocator, strings_ranges, data): the free ranges of the
\* allocator afterwards
free_strings(ranges, strings_ranges, data) ==
    IF strings_ranges = <<>> THEN ranges
    ELSE LET sorted == SortByStart(strings_ranges)
         IN  FreeEach(ranges, Strands(data, sorted, 2, sorted[1][1], sorted[1][2]), 1)

\* what the listeners of the module work on: the code file (its bytes, its
\* table records, its allocator) and the module data
ActorState ==
    [data |-> file_code_data, records |-> actor_records, table |-> actor_overlay_table,
     names |-> names_vram_start, free_ranges |-> code_allocator.free_ranges,
     tail |-> code_allocator.tail, log |-> allocator_log, err |-> ""]

\* mutant of parse_actor_overlay_table: the ranges of the names are not freed
parse_actor_overlay_table_noFree(st) ==
    LET r == ParseActorLoop(st.data, st.records, 1, <<>>, <<>>)
    IN  IF ~r.ok
        THEN [st EXCEPT !.err = r.err]
        ELSE [st EXCEPT !.table = [set |-> TRUE, entries |-> r.table]]

\* parse_actor_overlay_table
parse_actor_overlay_table(st) ==
    LET r == ParseActorLoop(st.data, st.records, 1, <<>>, <<>>)
    IN  IF ~r.ok
        THEN [st EXCEPT !.err = r.err]
        ELSE [st EXCEPT !.free_ranges = free_strings(st.free_ranges, r.name_ranges, st.data),
                        !.log = Append(st.log, [op |-> "free_strings", start |-> 0, end |-> 0]),
                        !.table = [set |-> TRUE, entries |-> r.table]]

\* mutant of PackNamesLoop: a name already interned is interned again
RECURSIVE PackNamesLoop_noDedup(_, _)
PackNamesLoop_noDedup(st, k) ==
    IF k > Len(st.table.entries) THEN st
    ELSE LET e == st.table.entries[k]
         IN  IF e = NoActor
             THEN PackNamesLoop_noDedup(st, k + 1)
             ELSE LET a == Allocator_alloc(st.free_ranges, st.tail, Len(e.name) + 1, 1)
                  IN  IF ~a.ok
                      THEN [st EXCEPT !.err = "AllocatorOutOfFreeRanges"]
                      ELSE PackNamesLoop_noDedup(
                               [st EXCEPT !.free_ranges = a.ranges,
                                          !.tail = a.tail,
                                          !.log = Append(st.log, [op |-> "alloc", start |-> a.start,
                                                                  end |-> a.end]),
                                          !.data = SliceAssign(st.data, a.start, a.end,
                                                               Append(e.name, 0)),
                                          !.names = [n \in DOMAIN st.names \cup {e.name} |->
                                                        IF n = e.name THEN version_info.code_vram_start + a.start
                                                        ELSE st.names[n]]],
                               k + 1)

\* the loop of pack_actor_overlay_table_names, from the k-th entry on
RECURSIVE PackNamesLoop(_, _)
PackNamesLoop(st, k) ==
    IF k > Len(st.table.entries) THEN st
    ELSE LET e == st.table.entries[k]
         IN  IF e = NoActor
             THEN PackNamesLoop(st, k + 1)
             ELSE IF e.name \in DOMAIN st.names
             THEN PackNamesLoop(st, k + 1)
             ELSE LET a == Allocator_alloc(st.free_ranges, st.tail, Len(e.name) + 1, 1)
                  IN  IF ~a.ok
                      THEN [st EXCEPT !.err = "AllocatorOutOfFreeRanges"]
                      ELSE PackNamesLoop(
                               [st EXCEPT !.free_ranges = a.ranges,
                                          !.tail = a.tail,
                                          !.log = Append(st.log, [op |-> "alloc", start |-> a.start,
                                                                  end |-> a.end]),
                                          !.data = SliceAssign(st.data, a.start, a.end,
                                                               Append(e.name, 0)),
                                          !.names = [n \in DOMAIN st.names \cup {e.name} |->
                                                        IF n = e.name THEN version_info.code_vram_start + a.start
                                                        ELSE st.names[n]]],
                               k + 1)

\* pack_actor_overlay_table_names: iterating a table that is None is a TypeError
pack_actor_overlay_table_names(st) ==
    IF ~st.table.set THEN [st EXCEPT !.err = "TypeError"] ELSE PackNamesLoop(st, 1)

UnsetRecord == [actor_init_vram_start |-> 0, name_vram_start |-> 0]

\* pack_actor_overlay_table: the records written to the code file
pack_actor_overlay_table(st) ==
    IF ~st.table.set
    THEN [st EXCEPT !.err = "TypeError"]
    ELSE IF ~(Len(st.table.entries) <= version_info.actor_overlay_table_length)
    THEN [st EXCEPT !.err = "AssertionError"]
    ELSE IF \E k \in 1..Len(st.table.entries) :
                st.table.entries[k] # NoActor /\ st.table.entries[k].name \notin DOMAIN st.names
    THEN [st EXCEPT !.err = "KeyError"]
    ELSE [st EXCEPT !.records =
             [k \in 1..Len(st.records) |->
                 IF k > Len(st.table.entries) THEN st.records[k]
                 ELSE IF st.table.entries[k] = NoActor THEN UnsetRecord
                 ELSE [actor_init_vram_start |-> st.table.entries[k].actor_init_vram_start,
                       name_vram_start |-> st.names[st.table.entries[k].name]]]]

\* register_pyrt_module of the module: the listeners it adds
actor_register_pyrt_module(listeners) ==
    LET l1 == add_event_listener(listeners, "EVENT_PARSE_ROM", "parse_actor_overlay_table")
        l2 == add_event_listener(l1.listeners, "EVENT_PACK_ROM_BEFORE_FILE_ALLOC",
                                 "pack_actor_overlay_table_names")
        l3 == add_event_listener(l2.listeners, "EVENT_PACK_ROM_AFTER_FILE_ALLOC",
                                 "pack_actor_overlay_table")
    IN  [ok |-> l1.ok /\ l2.ok /\ l3.ok, listeners |-> l3.listeners]

\* the call of one listener
CallListener(callback, st) ==
    IF callback = "parse_actor_overlay_table" THEN parse_actor_overlay_table(st)
    ELSE IF callback = "pack_actor_overlay_table_names" THEN pack_actor_overlay_table_names(st)
    ELSE pack_actor_overlay_table(st)

\* the loop of raise_event over the listeners of the module, from the k-th on:
\* an error ends it
RECURSIVE InvokeListeners(_, _, _)
InvokeListeners(callbacks, k, st) ==
    IF k > Len(callbacks) THEN st
    ELSE LET st2 == CallListener(callbacks[k], st)
         IN  IF st2.err # "" THEN st2 ELSE InvokeListeners(callbacks, k + 1, st2)

----------------------------------------------------------------------------
(* SpecActor: the run of the actor overlay table module on a code file *)

\* a code file whose string pool is any bytes, a table of unset records and
\* of records of internal actors whose name is at any offset of the pool, an
\* allocator with nothing free, with or without a tail at the end of the file
InitActor ==
    /\ IdleRanges
    /\ IdleAlloc
    /\ IdleRom
    /\ pc = "idle"
    /\ dmadata = <<>>
    /\ code = [obj |-> <<>>, scene |-> <<>>, mutable |-> FALSE]
    /\ code_data = [obj |-> <<>>, scene |-> <<>>, mutable |-> TRUE]
    /\ scene_rooms = <<>>
    /\ object_table = <<>>
    /\ scene_table = <<>>
    /\ rooms_by_scene = <<>>
    /\ out = <<>>
    /\ IdleHeaders
    /\ IdleLoad
    /\ modules = <<>>
    /\ unregistered_modules = <<>>
    /\ registered = <<>>
    /\ event_listeners = [e \in Elems(ActorEvents) |-> <<>>]
    /\ added = <<>>
    /\ invoked = <<>>
    /\ api = NoApiCall
    /\ rpc = "idle"
    /\ apc = "start"
    /\ file_code_data \in [1..PoolLen -> {0, 1}]
    /\ actor_records \in [1..version_info.actor_overlay_table_length ->
                             {UnsetRecord} \cup
                             {[actor_init_vram_start |-> 1, name_vram_start |-> version_info.code_vram_start + o] :
                                 o \in 0..(PoolLen - 1)}]
    /\ actor_overlay_table = [set |-> FALSE, entries |-> <<>>]
    /\ names_vram_start = <<>>
    /\ \E set \in BOOLEAN :
           code_allocator = [free_ranges |-> <<>>, tail |-> [set |-> set, at |-> IF set THEN PoolLen ELSE 0]]
    /\ allocator_log = <<>>

\* register_modules reaching the module: modules_data[TASK] = ActorOverlayTable()
\* and the listeners
RegisterActorModule ==
    /\ apc = "start"
    /\ LET r == actor_register_pyrt_module(event_listeners)
       IN  /\ event_listeners' = r.listeners
           /\ apc' = IF r.ok THEN "registered" ELSE "ValueError"
    /\ actor_overlay_table' = [set |-> FALSE, entries |-> <<>>]
    /\ names_vram_start' = <<>>
    /\ UNCHANGED <<rangesVars, allocVars, reallocVars, mainVars, headerVars, loadVars, modules,
                   unregistered_modules, registered, added, invoked, api, rpc,
                   file_code_data, actor_records, code_allocator, allocator_log>>

\* main() raising the k-th event, the events before it having been raised
RaiseActorEvent(k) ==
    /\ apc = (IF k = 1 THEN "registered" ELSE ActorEvents[k - 1])
    /\ \E st \in {InvokeListeners(event_listeners[ActorEvents[k]], 1, ActorState)} :
           /\ apc' = IF st.err = "" THEN ActorEvents[k] ELSE st.err
           /\ file_code_data' = st.data
           /\ actor_records' = st.records
           /\ actor_overlay_table' = st.table
           /\ names_vram_start' = st.names
           /\ code_allocator' = [free_ranges |-> st.free_ranges, tail |-> st.tail]
           /\ allocator_log' = st.log
    /\ UNCHANGED <<rangesVars, allocVars, reallocVars, mainVars, headerVars, loadVars, pyrtiVars>>

NextActor ==
    \/ RegisterActorModule
    \/ \E k \in 1..Len(ActorEvents) : RaiseActorEvent(k)

SpecActor == InitActor /\ [][NextActor]_vars

----------------------------------------------------------------------------
(* Claims on the string pool of the code file *)

LogIndexes(op) == {k \in 1..Len(allocator_log) : allocator_log[k].op = op}

Actors == {k \in 1..Len(actor_overlay_table.entries) : actor_overlay_table.entries[k] # NoActor}

ActorNames == {actor_overlay_table.entries[k].name : k \in Actors}

NamesPacked == apc \in {"EVENT_PACK_ROM_BEFORE_FILE_ALLOC", "EVENT_PACK_ROM_AFTER_FILE_ALLOC"}

\* the bytes of the code file a name and its end take, from its address on
NameRange(n) ==
    Interval(names_vram_start[n] - version_info.code_vram_start,
             names_vram_start[n] - version_info.code_vram_start + Len(n) + 1)

Consumed ==
    UNION {Interval(actor_records[k].name_vram_start - version_info.code_vram_start,
                    actor_records[k].name_vram_start - version_info.code_vram_start
                        + Len(actor_overlay_table.entries[k].name) + 1) : k \in Actors}

Freed == Addrs(code_allocator.free_ranges)

\* b is in a gap between two consumed ranges, of at most 3 bytes, all zero
InPadding(b) ==
    /\ b \notin Consumed
    /\ \E lo, hi \in 0..Len(file_code_data) :
           /\ lo <= b /\ b < hi /\ hi - lo <= 3
           /\ \A x \in lo..(hi - 1) : x \notin Consumed /\ file_code_data[x + 1] = 0
           /\ (lo - 1) \in Consumed
           /\ hi \in Consumed

\* C33: after the reclamation the free bytes of the code file are the bytes
\* of the names read and the bytes of the gaps between them that are at most
\* 3 bytes of zeros; ranges such a gap joins are freed as one range, any other
\* gap keeps its two sides apart and is not freed.
C33_StrandsMerged ==
    apc = "EVENT_PARSE_ROM" =>
        /\ \A b \in 0..Len(file_code_data) : b \in Freed <=> (b \in Consumed \/ InPadding(b))
        /\ \A i \in 1..(Len(code_allocator.free_ranges) - 1) :
               code_allocator.free_ranges[i][2] < code_allocator.free_ranges[i + 1][1]

\* two names with zero padding between them were freed as one range
C33_Witness ==
    /\ apc = "EVENT_PARSE_ROM"
    /\ Len(code_allocator.free_ranges) = 1
    /\ \E b \in Freed : InPadding(b)

\* two names with a gap of four zero bytes between them
C33_GapOfFour ==
    /\ apc = "EVENT_PARSE_ROM"
    /\ Len(code_allocator.free_ranges) = 2
    /\ code_allocator.free_ranges[2][1] - code_allocator.free_ranges[1][2] = 4
    /\ \A x \in code_allocator.free_ranges[1][2]..(code_allocator.free_ranges[2][1] - 1) :
           file_code_data[x + 1] = 0

----------------------------------------------------------------------------
(* Claims on the file list and the address spaces *)

\* files[i] was built from record i of the table main() read, and holds what
\* that record held until the reallocation
BuiltFromRecord(i) ==
    /\ files[i].name = i
    /\ pc \in {"loaded", "parsed", "headers"} => DmaRecord(files[i]) = dmadata[i]

\* C34: the position of a file in rom.files is the position of its record in
\* the DMA table: files[i] was built from record i, and pack_dma_table writes
\* files[i] to record i.
C34_IndexIsDmaPosition ==
    /\ \A i \in 1..Len(files) : BuiltFromRecord(i)
    /\ pc = "dma_packed" => \A i \in 1..Len(files) : dmadata[i] = DmaRecord(files[i])

\* the same, for the tables whose all-zero records are all at the end
IndexIsDmaPositionZerosLast ==
    /\ (pc \in {"loaded", "parsed", "headers"} /\ ZeroRecordsLast(dmadata)) =>
           \A i \in 1..Len(files) : BuiltFromRecord(i)
    /\ pc = "dma_packed" => \A i \in 1..Len(files) : dmadata[i] = DmaRecord(files[i])

\* ranges[i] start < ranges[i] end < ranges[i+1] start
Ordered(ranges) ==
    \A i \in 1..Len(ranges) :
        /\ ranges[i][1] < ranges[i][2]
        /\ i < Len(ranges) => ranges[i][2] < ranges[i + 1][1]

\* C35: after any calls of add_range and exclude_range with start <= end on
\* an empty Ranges, the list is sorted, holds no empty range and no two
\* ranges that overlap or touch.
C35_RangesOrdered == Ordered(rg)

\* the same, after calls with start < end only
RangesOrderedNonEmptyCalls ==
    (\A k \in 1..Len(hist) : hist[k].s < hist[k].e) => Ordered(rg)

\* the ROM addresses of the files of a set
RomAddrs(S) == UNION {Interval(files[i].rom_start, files[i].rom_start + files[i].len) : i \in S}

\* what a successful realloc_rom allocated from: what it left free and what
\* it gave to the movable files
RomFreeSet == Addrs(default_ranges) \cup RomAddrs(call.moveable)

\* C36: realloc_rom(max_rom, ...) allocates from [0, max_rom) less the ROM
\* ranges of the fixed files, whatever the calls before it left behind; no
\* movable file is given a ROM address at or above max_rom.
C36_RomFreeSetFresh ==
    (call.op = "realloc_rom" /\ call.ok) =>
        /\ RomFreeSet = Interval(0, call.max) \ RomAddrs((1..Len(files)) \ call.moveable)
        /\ \A i \in call.moveable : files[i].rom_start + files[i].len <= call.max

\* the same, for the first reallocation of the process
FirstCallRomFreeSetFresh ==
    (call.op = "realloc_rom" /\ call.ok /\ call.n = 1) =>
        /\ RomFreeSet = Interval(0, call.max) \ RomAddrs((1..Len(files)) \ call.moveable)
        /\ \A i \in call.moveable : files[i].rom_start + files[i].len <= call.max

----------------------------------------------------------------------------
(* Claims on the two searches for alternate headers *)

\* C37: the search parse_scene_headers makes ends on every scene file: the
\* check of a candidate header reaches 0x14, rejects the candidate or runs
\* past the end of the data, and never reads one command for ever.
C37_ParseTerminates == header_offsets.outcome # "hang"

\* the same, for the search of pack_room_lists
PackTerminates == pc = "pack_walked" => header_offsets.outcome # "hang"

\* C38: on the same scene data the search of parse_scene_headers and the
\* search of pack_room_lists come to the same list of header offsets.
C38_SameHeaderOffsets ==
    /\ pc = "parse_walked" => HeaderOffsets(scene_data, TRUE) = header_offsets
    /\ pc = "pack_walked" => HeaderOffsets(scene_data, FALSE) = header_offsets

\* the same, for the scene files whose header 0 has no 0x18 command
SameHeaderOffsetsNoList ==
    CommandCode(scene_data, 0) # 24 =>
        /\ pc = "parse_walked" => HeaderOffsets(scene_data, TRUE) = header_offsets
        /\ pc = "pack_walked" => HeaderOffsets(scene_data, FALSE) = header_offsets

----------------------------------------------------------------------------
(* load_object_files (object_table.py); rom.new_file is modelled from the   *)
(* specification, section 3 (RomFile)                                      *)

\* an address field that is None
Unset == 0 - 1

\* rom.new_file(data): a file that is in no DMA record yet
new_file(fs, data) ==
    Append(fs, [name |-> 0, len |-> Len(data), data |-> data,
                vrom_start |-> Unset, vrom_end |-> Unset,
                rom_start |-> Unset, rom_end |-> Unset])

\* mutant of LoadObjectLoop: the entry of an object that lost its file is kept
RECURSIVE LoadObjectLoop_keepsEntry(_, _, _, _)
LoadObjectLoop_keepsEntry(fs, table, dirs, k) ==
    IF k > Len(dirs)
    THEN [ok |-> TRUE, err |-> "", files |-> fs, table |-> table]
    ELSE LET d == dirs[k]
         IN  IF d.id < 0
             THEN [ok |-> FALSE, err |-> "Exception", files |-> fs, table |-> table]
             ELSE IF ~(d.id < Len(table))
             THEN [ok |-> FALSE, err |-> "AssertionError", files |-> fs, table |-> table]
             ELSE LET rom_file == table[d.id + 1]
                  IN  IF d.has_file
                      THEN IF rom_file = 0
                           THEN LoadObjectLoop_keepsEntry(new_file(fs, d.data), table, dirs, k + 1)
                           ELSE LoadObjectLoop_keepsEntry(
                                    [fs EXCEPT ![rom_file].data = d.data,
                                               ![rom_file].len = Len(d.data)],
                                    table, dirs, k + 1)
                      ELSE LoadObjectLoop_keepsEntry(fs, table, dirs, k + 1)

\* the loop of load_object_files over the directories, from the k-th on; a
\* directory whose name has no leading number has id < 0
RECURSIVE LoadObjectLoop(_, _, _, _)
LoadObjectLoop(fs, table, dirs, k) ==
    IF k > Len(dirs)
    THEN [ok |-> TRUE, err |-> "", files |-> fs, table |-> table]
    ELSE LET d == dirs[k]
         IN  IF d.id < 0
             THEN [ok |-> FALSE, err |-> "Exception", files |-> fs, table |-> table]
             ELSE IF ~(d.id < Len(table))
             THEN [ok |-> FALSE, err |-> "AssertionError", files |-> fs, table |-> table]
             ELSE LET rom_file == table[d.id + 1]
                  IN  IF d.has_file
                      THEN IF rom_file = 0
                           \* the new file is bound to the local name only
                           THEN LoadObjectLoop(new_file(fs, d.data), table, dirs, k + 1)
                           ELSE LoadObjectLoop(
                                    [fs EXCEPT ![rom_file].data = d.data,
                                               ![rom_file].len = Len(d.data)],
                                    table, dirs, k + 1)
                      ELSE IF rom_file # 0
                      THEN LoadObjectLoop(fs, [table EXCEPT ![d.id + 1] = 0], dirs, k + 1)
                      ELSE LoadObjectLoop(fs, table, dirs, k + 1)

load_object_files(fs, table, dirs) == LoadObjectLoop(fs, table, dirs, 1)

----------------------------------------------------------------------------
(* SpecLoad: load_object_files on a decoded object table *)

\* what an object.zobj holds
Contents == {<<1>>, <<2, 2>>}

\* a directory of objects/: its leading number (Unset: its name starts with
\* no number), and what its object.zobj holds if it has one
DirEntries ==
    {[id |-> i, has_file |-> FALSE, data |-> <<>>] : i \in Unset..ObjectTableLen}
        \cup {[id |-> i, has_file |-> TRUE, data |-> c] : i \in Unset..ObjectTableLen, c \in Contents}

\* what iterdir() may list: directories of different numbers, in any order
Listings ==
    {l \in UNION {[1..n -> DirEntries] : n \in 0..(ObjectTableLen + 1)} :
        \A j, k \in 1..Len(l) : l[j].id = l[k].id => j = k}

\* ObjectTableLen object files as the reader built them, an object table
\* whose entries are None or one of them, and any listing of objects/
InitLoad ==
    /\ IdleRanges
    /\ IdlePyrti
    /\ IdleAlloc
    /\ IdleHeaders
    /\ IdleActor
    /\ default_ranges = <<>>
    /\ call = NoRealloc
    /\ pc = "parsed"
    /\ dmadata = <<>>
    /\ code = [obj |-> <<>>, scene |-> <<>>, mutable |-> FALSE]
    /\ code_data = [obj |-> <<>>, scene |-> <<>>, mutable |-> TRUE]
    /\ scene_rooms = <<>>
    /\ scene_table = <<>>
    /\ rooms_by_scene = <<>>
    /\ out = <<>>
    /\ files = [k \in 1..ObjectTableLen |->
                   [name |-> k, len |-> 1, data |-> <<0>>,
                    vrom_start |-> k - 1, vrom_end |-> k,
                    rom_start |-> k - 1, rom_end |-> 0]]
    /\ object_table \in [1..ObjectTableLen -> 0..ObjectTableLen]
    /\ objects_dir \in Listings

\* main() raising EVENT_LOAD_FILES: load_object_files
LoadObjectFiles ==
    /\ pc = "parsed"
    /\ \E r \in {load_object_files(files, object_table, objects_dir)} :
           /\ files' = r.files
           /\ object_table' = r.table
           /\ pc' = IF r.ok THEN "files_loaded" ELSE "aborted"
    /\ UNCHANGED <<rangesVars, allocVars, headerVars, actorVars, loadVars, pyrtiVars,
                   default_ranges, call, dmadata, code, code_data, scene_rooms,
                   scene_table, rooms_by_scene, out>>

NextLoad == LoadObjectFiles

SpecLoad == InitLoad /\ [][NextLoad]_vars

\* the directory of objects/ whose number is id, if there is one
DirsOf(id) == {k \in 1..Len(objects_dir) : objects_dir[k].id = id}

\* C39: when load_object_files returns, the entry of every object id whose
\* directory has an object.zobj is a file whose data is what was loaded (the
\* file it was, or a new file if it was None), the entry of every id whose
\* directory has none is None, and the other entries are what they were.
C39_LoadedObjects ==
    [][pc' = "files_loaded" =>
         \A id \in 0..(Len(object_table) - 1) :
             /\ \A k \in DirsOf(id) :
                    IF objects_dir[k].has_file
                    THEN /\ object_table'[id + 1] # 0
                         /\ files'[object_table'[id + 1]].data = objects_dir[k].data
                         /\ object_table[id + 1] # 0 => object_table'[id + 1] = object_table[id + 1]
                    ELSE object_table'[id + 1] = 0
             /\ DirsOf(id) = {} => object_table'[id + 1] = object_table[id + 1]]_vars

\* no two entries of the table are the same file
DistinctEntries ==
    \A j, k \in 1..Len(object_table) :
        (j # k /\ object_table[j] # 0) => object_table[j] # object_table[k]

\* the same, for a table of different files and the ids whose entry was a
\* file before the load or whose directory has no object.zobj
LoadedObjectsOfSetEntries ==
    [][(pc' = "files_loaded" /\ DistinctEntries) =>
         \A id \in 0..(Len(object_table) - 1) :
             /\ \A k \in DirsOf(id) :
                    IF objects_dir[k].has_file
                    THEN object_table[id + 1] # 0 =>
                             /\ object_table'[id + 1] = object_table[id + 1]
                             /\ files'[object_table'[id + 1]].data = objects_dir[k].data
                    ELSE object_table'[id + 1] = 0
             /\ DirsOf(id) = {} => object_table'[id + 1] = object_table[id + 1]]_vars

----------------------------------------------------------------------------
(* Claims on the lengths of the files after the reallocation *)

\* positions of main() from the end of the reallocation to the write
AfterRealloc ==
    {"rom_done", "dma_packed", "code_copied", "tables_packed", "code_replaced",
     "rooms_packed"}

\* len(data) of every file, in the units the model keeps each content in: the
\* records of the dmadata file, the entries of the two tables of the code file
\* and of its copy, the room list of each scene file, the bytes of the others
DataLengths ==
    [dmadata |-> Len(dmadata),
     code |-> <<Len(code.obj), Len(code.scene)>>,
     rooms |-> [k \in DOMAIN scene_rooms |-> Len(scene_rooms[k])],
     len |-> [k \in DOMAIN files |-> files[k].len]]

\* C40: from the end of the ROM reallocation to the write, no step of main()
\* (pack_dma_table, the copy of the code buffer, the pack listeners, the
\* replacement of the code buffer, pack_room_lists, write) changes the length
\* of the data of a file, and every file is as long as the VROM range it has
C40_DataLengthsKept ==
    [][(pc \in AfterRealloc) =>
         (DataLengths' = DataLengths
          /\ \A k \in DOMAIN files :
                 files'[k].vrom_end - files'[k].vrom_start = files'[k].len)]_vars

\* C40 witness: the image was written from a DMA table that has more records
\* than there are files, and a file stands at another VROM address than the
\* one its record of the table read gave it
C40_Witness ==
    /\ pc = "written"
    /\ Len(dmadata) > Len(files)
    /\ \E k \in DOMAIN files : files[k].vrom_start # k - 1 /\ files[k].len = 1

\* the pack listener of the actor overlay table, run after the allocation of
\* the files, writes into the code file without changing its length
ActorPackKeepsCodeLength ==
    [][apc = "EVENT_PACK_ROM_BEFORE_FILE_ALLOC" =>
         Len(file_code_data') = Len(file_code_data)]_vars

\* the listener that packs the names, run before the allocation of the files,
\* has made the code file longer: a name was allocated from the tail
NamesPackGrewCode ==
    /\ apc = "EVENT_PACK_ROM_BEFORE_FILE_ALLOC"
    /\ Len(file_code_data) > PoolLen

====
